---- MODULE Spec2Model ----
(***************************************************************************)
(* The Shell Memory runtime (state store), the Intent Glossary (registry)  *)
(* and the Recursion Executor (action gateway) of the login template.      *)
(*                                                                         *)
(* Numbers: the drift weights and the entropy thresholds are decimals with *)
(* at most two places; they are held here in hundredths.  An average of at *)
(* most 10 of them is held exactly in units of 1/(100 * DriftScale).       *)
(* A nullable value (T | null) is the empty sequence for null and <<v>>    *)
(* for a value v.                                                          *)
(***************************************************************************)
EXTENDS Integers, Sequences, FiniteSets, TLC

VARIABLES
    state,          \* ShellMemoryRuntime.state: the current snapshot
    stateRef,       \* identity of the object held in ShellMemoryRuntime.state
    driftHistory,   \* ShellMemoryRuntime.driftHistory
    subscribers,    \* ShellMemoryRuntime.subscribers, in insertion order
    delivered,      \* the callback invocations made by the latest handler
    uncaught,       \* TRUE iff the latest handler let an exception escape
    now,            \* the value Date.now() returns
    executionLog,   \* RecursionExecutorInterface.executionLog
    calls,          \* the invocations of execute, in the order they were made
    steps,          \* the number of steps taken so far
    verdict,        \* the latest call of canExecute: its argument and its result
    previousUser,           \* AuthStateObserverIntent.previousUser
    previousEmailVerified   \* AuthStateObserverIntent.previousEmailVerified

vars == <<state, stateRef, driftHistory, subscribers, delivered, uncaught, now,
          executionLog, calls, steps, verdict, previousUser, previousEmailVerified>>

\* -------------------------------------------------------------------------
\* Bounds of the model
\* -------------------------------------------------------------------------
\* The number of handler invocations (and clock ticks) a behaviour holds
MaxSteps == 4

\* -------------------------------------------------------------------------
\* Nullable values
\* -------------------------------------------------------------------------
NULL == << >>

Some(v) == << v >>

\* -------------------------------------------------------------------------
\* The Intent Glossary
\* -------------------------------------------------------------------------
Decl(glyph, threshold, auth, rev) ==
    [intentGlyph |-> glyph, entropyThreshold |-> threshold,
     requiresAuthentication |-> auth, reversible |-> rev]

INTENT_GLOSSARY ==
    << Decl("AUTH_LOGIN_WITH_EMAIL", 10, FALSE, TRUE),
       Decl("AUTH_SIGNUP_WITH_EMAIL", 20, FALSE, FALSE),
       Decl("AUTH_SIGNOUT", 5, TRUE, TRUE),
       Decl("AUTH_SEND_PASSWORD_RESET", 15, FALSE, FALSE),
       Decl("AUTH_SEND_EMAIL_VERIFICATION", 10, TRUE, FALSE),
       Decl("AUTH_RELOAD_USER", 2, TRUE, TRUE),
       Decl("IDENTITY_GET_CURRENT_USER", 1, FALSE, TRUE),
       Decl("IDENTITY_UPDATE_PROFILE", 10, TRUE, TRUE),
       Decl("IDENTITY_UPDATE_EMAIL", 30, TRUE, FALSE),
       Decl("IDENTITY_UPDATE_PASSWORD", 30, TRUE, FALSE),
       Decl("MEMORY_SET_AUTH_STATE", 5, FALSE, TRUE),
       Decl("MEMORY_SET_LOADING_STATE", 1, FALSE, TRUE),
       Decl("MEMORY_SET_ERROR_STATE", 20, FALSE, TRUE),
       Decl("MEMORY_CLEAR_ERROR_STATE", 1, FALSE, TRUE),
       Decl("STORAGE_UPLOAD_PUBLIC_PHOTO", 20, TRUE, TRUE),
       Decl("STORAGE_UPLOAD_PRIVATE_FILE", 25, TRUE, TRUE),
       Decl("STORAGE_DELETE_FILE", 30, TRUE, FALSE),
       Decl("NAVIGATE_TO_LOGIN", 2, FALSE, TRUE),
       Decl("NAVIGATE_TO_SIGNUP", 2, FALSE, TRUE),
       Decl("NAVIGATE_TO_MAIN_APP", 5, TRUE, TRUE),
       Decl("NAVIGATE_TO_FORGOT_PASSWORD", 2, FALSE, TRUE),
       Decl("NAVIGATE_TO_VERIFY_EMAIL", 2, TRUE, TRUE) >>

\* Faulty variant of isIntentPermitted: every name passes the existence gate
isIntentPermitted_Any(intentGlyph) == TRUE

\* INTENT_GLOSSARY.some(intent => intent.intentGlyph === intentGlyph)
isIntentPermitted(intentGlyph) ==
    \E i \in DOMAIN INTENT_GLOSSARY : INTENT_GLOSSARY[i].intentGlyph = intentGlyph

\* INTENT_GLOSSARY.find(...) ?? null : the first declaration with the glyph
getIntentDeclaration(intentGlyph) ==
    LET matches == {i \in DOMAIN INTENT_GLOSSARY :
                        INTENT_GLOSSARY[i].intentGlyph = intentGlyph}
    IN  IF matches = {} THEN NULL
        ELSE Some(INTENT_GLOSSARY[CHOOSE i \in matches : \A j \in matches : i <= j])

\* Faulty variant of intentRequiresAuth: no intent asks for authentication
intentRequiresAuth_Never(intentGlyph) == FALSE

\* intent?.requiresAuthentication ?? true
intentRequiresAuth(intentGlyph) ==
    LET intent == getIntentDeclaration(intentGlyph)
    IN  IF intent = NULL THEN TRUE ELSE intent[1].requiresAuthentication

\* the default of getEntropyThreshold, 1.0, in hundredths
DefaultEntropyThreshold == 100

\* intent?.entropyThreshold ?? 1.0
getEntropyThreshold(intentGlyph) ==
    LET intent == getIntentDeclaration(intentGlyph)
    IN  IF intent = NULL THEN DefaultEntropyThreshold ELSE intent[1].entropyThreshold

\* -------------------------------------------------------------------------
\* The phase memory snapshot
\* -------------------------------------------------------------------------
PhaseStability == {"INITIALIZING", "STABLE", "TRANSITIONING", "DRIFT_DETECTED", "STALLED"}

ViewGlyph == {"VIEW_LOGIN", "VIEW_SIGNUP", "VIEW_VERIFY_EMAIL",
              "VIEW_FORGOT_PASSWORD", "VIEW_MAIN_APP", "VIEW_LOADING"}

ErrorSourceGlyph == {"ERROR_AUTH_LOGIN", "ERROR_AUTH_SIGNUP", "ERROR_AUTH_SIGNOUT",
                     "ERROR_AUTH_PASSWORD_RESET", "ERROR_AUTH_EMAIL_VERIFICATION",
                     "ERROR_STORAGE_UPLOAD", "ERROR_STORAGE_DELETE",
                     "ERROR_NETWORK", "ERROR_UNKNOWN"}

EmptyForm == [email |-> "", password |-> "", confirmPassword |-> "", displayName |-> ""]

\* INITIAL_PHASE_MEMORY with its recursionTimestamp (Date.now() at module load)
INITIAL_PHASE_MEMORY(loadTime) ==
    [recursionTimestamp |-> loadTime,
     phaseStability |-> "INITIALIZING",
     authPhase |-> [currentUser |-> NULL,
                    isAuthenticated |-> FALSE,
                    emailVerified |-> FALSE,
                    authLoadingComplete |-> FALSE,
                    lastAuthEventTimestamp |-> NULL],
     uiPhase |-> [isLoading |-> TRUE,
                  currentView |-> "VIEW_LOADING",
                  previousView |-> NULL,
                  formState |-> EmptyForm],
     errorPhase |-> [hasError |-> FALSE,
                     errorCode |-> NULL,
                     errorMessage |-> NULL,
                     errorTimestamp |-> NULL,
                     errorSource |-> NULL]]

\* Faulty variant of Spread: the update is dropped
Spread_KeepsBase(base, update) == base

\* { ...base, ...update } : the fields update names take its values
Spread(base, update) ==
    [f \in DOMAIN base |-> IF f \in DOMAIN update THEN update[f] ELSE base[f]]

\* -------------------------------------------------------------------------
\* Subscribers and failures
\* -------------------------------------------------------------------------
\* The callbacks callers register: "render" returns normally (the view router
\* of App.tsx), "faulty" throws on every invocation.
Callbacks == {"render", "faulty"}

CallbackThrows(callback) == callback = "faulty"

\* What a callback that throws raises: an Error with this message
CallbackError == [isError |-> TRUE, message |-> "subscriber failed"]

\* try { callback(currentState) } catch (error) { console.error(...) }
\* Faulty variant of SubscriberErrorCaught: notifySubscribers without its try/catch
SubscriberErrorCaught_Not == FALSE

SubscriberErrorCaught == TRUE

\* -------------------------------------------------------------------------
\* ShellMemoryRuntime: each operation maps a store M to the store after it.
\* M.threw is TRUE iff the operation ended by throwing.
\* -------------------------------------------------------------------------
Store == [state |-> state, stateRef |-> stateRef, driftHistory |-> driftHistory,
          subscribers |-> subscribers, delivered |-> << >>, threw |-> FALSE]

\* Faulty variant of Assign: the fields of the snapshot object the store holds
\* are overwritten in place
Assign_InPlace(M, next) == [M EXCEPT !.state = next]

\* this.state = next : a new snapshot object replaces the old one
Assign(M, next) == [M EXCEPT !.state = next, !.stateRef = @ + 1]

AuthDriftWeight == 30
ViewDriftWeight == 10
ErrorDriftWeight == 20
MaxDriftHistory == 10

\* Faulty variant of calculateDrift: the oldest drift is never dropped
calculateDrift_KeepsAll(M, previousState) ==
    LET driftScore ==
            (IF previousState.authPhase.isAuthenticated # M.state.authPhase.isAuthenticated
             THEN AuthDriftWeight ELSE 0)
          + (IF previousState.uiPhase.currentView # M.state.uiPhase.currentView
             THEN ViewDriftWeight ELSE 0)
          + (IF previousState.errorPhase.hasError # M.state.errorPhase.hasError
             THEN ErrorDriftWeight ELSE 0)
    IN  [M EXCEPT !.driftHistory = Append(M.driftHistory, driftScore)]

\* Faulty variant of calculateDrift: a view transition weighs 0.2 and a flip
\* of the error flag 0.1
calculateDrift_ViewOverError(M, previousState) ==
    LET driftScore ==
            (IF previousState.authPhase.isAuthenticated # M.state.authPhase.isAuthenticated
             THEN AuthDriftWeight ELSE 0)
          + (IF previousState.uiPhase.currentView # M.state.uiPhase.currentView
             THEN ErrorDriftWeight ELSE 0)
          + (IF previousState.errorPhase.hasError # M.state.errorPhase.hasError
             THEN ViewDriftWeight ELSE 0)
        pushed == Append(M.driftHistory, driftScore)
    IN  [M EXCEPT !.driftHistory =
            IF Len(pushed) > MaxDriftHistory THEN Tail(pushed) ELSE pushed]

calculateDrift(M, previousState) ==
    LET driftScore ==
            (IF previousState.authPhase.isAuthenticated # M.state.authPhase.isAuthenticated
             THEN AuthDriftWeight ELSE 0)
          + (IF previousState.uiPhase.currentView # M.state.uiPhase.currentView
             THEN ViewDriftWeight ELSE 0)
          + (IF previousState.errorPhase.hasError # M.state.errorPhase.hasError
             THEN ErrorDriftWeight ELSE 0)
        pushed == Append(M.driftHistory, driftScore)
    IN  [M EXCEPT !.driftHistory =
            IF Len(pushed) > MaxDriftHistory THEN Tail(pushed) ELSE pushed]

RECURSIVE SumSeq(_)
SumSeq(s) == IF s = << >> THEN 0 ELSE Head(s) + SumSeq(Tail(s))

\* the least number every history length 1..10 divides
DriftScale == 5 * 7 * 8 * 9

\* an entropy threshold (hundredths) in the unit of getAverageDrift
Scaled(hundredths) == hundredths * DriftScale

\* Faulty variant of getAverageDrift: the sum is divided by the capacity of
\* the history
getAverageDrift_OverCapacity(M) ==
    IF Len(M.driftHistory) = 0 THEN 0
    ELSE (SumSeq(M.driftHistory) * DriftScale) \div MaxDriftHistory

\* driftHistory.reduce((a, b) => a + b, 0) / driftHistory.length
getAverageDrift(M) ==
    IF Len(M.driftHistory) = 0 THEN 0
    ELSE (SumSeq(M.driftHistory) * DriftScale) \div Len(M.driftHistory)

\* A callback may itself call the store: "dismiss" calls clearError() when
\* the snapshot it is handed holds an error
CallbackMutates(callback, snapshot) ==
    callback = "dismiss" /\ snapshot.errorPhase.hasError

\* The snapshot clearError() assigns when the store holds current
ErrorCleared(current, t) ==
    [current EXCEPT !.recursionTimestamp = t,
                    !.phaseStability = IF current.authPhase.authLoadingComplete
                                       THEN "STABLE" ELSE "TRANSITIONING",
                    !.errorPhase = [hasError |-> FALSE,
                                    errorCode |-> NULL,
                                    errorMessage |-> NULL,
                                    errorTimestamp |-> NULL,
                                    errorSource |-> NULL]]

\* const currentState = this.state; this.subscribers.forEach(callback => ...)
\* from the i-th subscriber on: every callback is handed currentState, the
\* snapshot the store held when the loop began.  A callback that mutates
\* the store runs the mutation, and the notification it makes, to its end
\* before the loop goes on; the clock does not advance within a handler, so
\* the mutation reads the time currentState was made at.
RECURSIVE NotifyFrom(_, _, _, _)
NotifyFrom(M, currentState, currentRef, i) ==
    IF i > Len(M.subscribers) THEN M
    ELSE LET callback == M.subscribers[i]
             called == [M EXCEPT !.delivered =
                           Append(@, [callback |-> callback, ref |-> currentRef,
                                      snapshot |-> currentState])]
             assigned == Assign(called, ErrorCleared(called.state,
                                                     currentState.recursionTimestamp))
             returned == IF CallbackMutates(callback, currentState)
                         THEN NotifyFrom(assigned, assigned.state, assigned.stateRef, 1)
                         ELSE called
         IN  IF CallbackThrows(callback) /\ ~SubscriberErrorCaught
             THEN [called EXCEPT !.threw = TRUE]
             ELSE NotifyFrom(returned, currentState, currentRef, i + 1)

\* Faulty variant of notifySubscribers: the callbacks are invoked last first
RECURSIVE NotifyDownFrom(_, _)
NotifyDownFrom(M, i) ==
    IF i < 1 THEN M
    ELSE LET callback == M.subscribers[i]
             called == [M EXCEPT !.delivered =
                           Append(@, [callback |-> callback, ref |-> M.stateRef,
                                      snapshot |-> M.state])]
         IN  IF CallbackThrows(callback) /\ ~SubscriberErrorCaught
             THEN [called EXCEPT !.threw = TRUE]
             ELSE NotifyDownFrom(called, i - 1)

notifySubscribers_Reversed(M) == NotifyDownFrom(M, Len(M.subscribers))

\* Faulty variant of notifySubscribers: one try/catch around the whole loop,
\* so that the callbacks after one that throws are skipped
RECURSIVE NotifyUntilThrow(_, _)
NotifyUntilThrow(M, i) ==
    IF i > Len(M.subscribers) THEN M
    ELSE LET callback == M.subscribers[i]
             called == [M EXCEPT !.delivered =
                           Append(@, [callback |-> callback, ref |-> M.stateRef,
                                      snapshot |-> M.state])]
         IN  IF CallbackThrows(callback)
             THEN called
             ELSE NotifyUntilThrow(called, i + 1)

notifySubscribers_StopsAtThrow(M) == NotifyUntilThrow(M, 1)

notifySubscribers(M) == NotifyFrom(M, M.state, M.stateRef, 1)

setAuthPhase(M, update, t) ==
    LET previousState == M.state
        next == [M.state EXCEPT !.recursionTimestamp = t,
                                !.authPhase = Spread(@, update)]
    IN  notifySubscribers(calculateDrift(Assign(M, next), previousState))

\* Faulty variant of setUIPhase: previousView is set whenever the update names
\* currentView, the view that is already current included
setUIPhase_HistoryOnSameView(M, update, t) ==
    LET previousState == M.state
        merged == Spread(M.state.uiPhase, update)
        newUIPhase ==
            IF "currentView" \in DOMAIN update
            THEN [merged EXCEPT !.previousView = Some(M.state.uiPhase.currentView)]
            ELSE merged
        next == [M.state EXCEPT !.recursionTimestamp = t, !.uiPhase = newUIPhase]
    IN  notifySubscribers(calculateDrift(Assign(M, next), previousState))

setUIPhase(M, update, t) ==
    LET previousState == M.state
        merged == Spread(M.state.uiPhase, update)
        newUIPhase ==
            IF /\ "currentView" \in DOMAIN update
               /\ update.currentView # M.state.uiPhase.currentView
            THEN [merged EXCEPT !.previousView = Some(M.state.uiPhase.currentView)]
            ELSE merged
        next == [M.state EXCEPT !.recursionTimestamp = t, !.uiPhase = newUIPhase]
    IN  notifySubscribers(calculateDrift(Assign(M, next), previousState))

\* Faulty variant of setFormPhase: recursionTimestamp is left as it was
setFormPhase_KeepsVersion(M, update, t) ==
    Assign(M, [M.state EXCEPT !.uiPhase.formState = Spread(@, update)])

\* Faulty variant of setFormPhase: the subscribers are notified
setFormPhase_Notifies(M, update, t) ==
    notifySubscribers(Assign(M, [M.state EXCEPT !.recursionTimestamp = t,
                                                !.uiPhase.formState = Spread(@, update)]))

setFormPhase(M, update, t) ==
    Assign(M, [M.state EXCEPT !.recursionTimestamp = t,
                              !.uiPhase.formState = Spread(@, update)])

\* Faulty variant of setError: the stability is left as it was
setError_KeepsStability(M, code, message, source, t) ==
    LET previousState == M.state
        next == [M.state EXCEPT !.recursionTimestamp = t,
                                !.errorPhase = [hasError |-> TRUE,
                                                errorCode |-> Some(code),
                                                errorMessage |-> Some(message),
                                                errorTimestamp |-> Some(t),
                                                errorSource |-> Some(source)]]
    IN  notifySubscribers(calculateDrift(Assign(M, next), previousState))

setError(M, code, message, source, t) ==
    LET previousState == M.state
        next == [M.state EXCEPT !.recursionTimestamp = t,
                                !.phaseStability = "DRIFT_DETECTED",
                                !.errorPhase = [hasError |-> TRUE,
                                                errorCode |-> Some(code),
                                                errorMessage |-> Some(message),
                                                errorTimestamp |-> Some(t),
                                                errorSource |-> Some(source)]]
    IN  notifySubscribers(calculateDrift(Assign(M, next), previousState))

\* Faulty variant of clearError: the drift of the change is recorded
clearError_RecordsDrift(M, t) ==
    LET previousState == M.state
        next == [M.state EXCEPT !.recursionTimestamp = t,
                                !.phaseStability =
                                    IF M.state.authPhase.authLoadingComplete
                                    THEN "STABLE" ELSE "TRANSITIONING",
                                !.errorPhase = [hasError |-> FALSE,
                                                errorCode |-> NULL,
                                                errorMessage |-> NULL,
                                                errorTimestamp |-> NULL,
                                                errorSource |-> NULL]]
    IN  notifySubscribers(calculateDrift(Assign(M, next), previousState))

\* Faulty variant of clearError: the stability is STABLE whatever authPhase holds
clearError_AlwaysStable(M, t) ==
    LET next == [M.state EXCEPT !.recursionTimestamp = t,
                                !.phaseStability = "STABLE",
                                !.errorPhase = [hasError |-> FALSE,
                                                errorCode |-> NULL,
                                                errorMessage |-> NULL,
                                                errorTimestamp |-> NULL,
                                                errorSource |-> NULL]]
    IN  notifySubscribers(Assign(M, next))

clearError(M, t) ==
    LET next == [M.state EXCEPT !.recursionTimestamp = t,
                                !.phaseStability =
                                    IF M.state.authPhase.authLoadingComplete
                                    THEN "STABLE" ELSE "TRANSITIONING",
                                !.errorPhase = [hasError |-> FALSE,
                                                errorCode |-> NULL,
                                                errorMessage |-> NULL,
                                                errorTimestamp |-> NULL,
                                                errorSource |-> NULL]]
    IN  notifySubscribers(Assign(M, next))

\* Faulty variant of setPhaseStability: the drift of the change (none) is
\* recorded, as the setters of the other phases do
setPhaseStability_RecordsDrift(M, stability, t) ==
    LET previousState == M.state
        next == [M.state EXCEPT !.recursionTimestamp = t,
                                !.phaseStability = stability]
    IN  notifySubscribers(calculateDrift(Assign(M, next), previousState))

\* Faulty variant of setPhaseStability: the stability is left as it was
setPhaseStability_Ignored(M, stability, t) ==
    notifySubscribers(Assign(M, [M.state EXCEPT !.recursionTimestamp = t]))

setPhaseStability(M, stability, t) ==
    notifySubscribers(Assign(M, [M.state EXCEPT !.recursionTimestamp = t,
                                                !.phaseStability = stability]))

\* Faulty variant of reset: the view that was current is kept as previousView
reset_KeepsPreviousView(M, t) ==
    notifySubscribers(
        [Assign(M, [INITIAL_PHASE_MEMORY(t) EXCEPT
                        !.uiPhase.previousView = Some(M.state.uiPhase.currentView)])
            EXCEPT !.driftHistory = << >>])

\* Faulty variant of reset: the drift history is kept
reset_KeepsHistory(M, t) == notifySubscribers(Assign(M, INITIAL_PHASE_MEMORY(t)))

reset(M, t) ==
    notifySubscribers([Assign(M, INITIAL_PHASE_MEMORY(t)) EXCEPT !.driftHistory = << >>])

\* this.subscribers.add(callback) : a Set keeps the first insertion's place
subscribe(M, callback) ==
    IF \E i \in DOMAIN M.subscribers : M.subscribers[i] = callback
    THEN M
    ELSE [M EXCEPT !.subscribers = Append(@, callback)]

\* Faulty variant of unsubscribe: the callback registered last is removed,
\* whichever callback the function was returned for
unsubscribe_DropsNewest(M, callback) ==
    [M EXCEPT !.subscribers =
        IF @ = << >> THEN @ ELSE SubSeq(@, 1, Len(@) - 1)]

\* this.subscribers.delete(callback)
unsubscribe(M, callback) ==
    [M EXCEPT !.subscribers = SelectSeq(@, LAMBDA c : c # callback)]

isUserAuthenticated(M) == M.state.authPhase.isAuthenticated

\* -------------------------------------------------------------------------
\* RecursionExecutorInterface
\* -------------------------------------------------------------------------
\* Intent names callers pass that the glossary does not declare
UndeclaredGlyphs == {"GHOST_INTENT", "AUTH_LOGIN"}

GlossaryGlyphs == {INTENT_GLOSSARY[i].intentGlyph : i \in DOMAIN INTENT_GLOSSARY}

\* The words of a name, which are separated by "_" (names and the prefixes
\* mapIntentToErrorSource tests); a name not listed is one word
Words(name) ==
    CASE name = "AUTH_LOGIN_WITH_EMAIL" -> <<"AUTH", "LOGIN", "WITH", "EMAIL">>
      [] name = "AUTH_SIGNUP_WITH_EMAIL" -> <<"AUTH", "SIGNUP", "WITH", "EMAIL">>
      [] name = "AUTH_SIGNOUT" -> <<"AUTH", "SIGNOUT">>
      [] name = "AUTH_SEND_PASSWORD_RESET" -> <<"AUTH", "SEND", "PASSWORD", "RESET">>
      [] name = "AUTH_SEND_EMAIL_VERIFICATION" -> <<"AUTH", "SEND", "EMAIL", "VERIFICATION">>
      [] name = "AUTH_RELOAD_USER" -> <<"AUTH", "RELOAD", "USER">>
      [] name = "IDENTITY_GET_CURRENT_USER" -> <<"IDENTITY", "GET", "CURRENT", "USER">>
      [] name = "IDENTITY_UPDATE_PROFILE" -> <<"IDENTITY", "UPDATE", "PROFILE">>
      [] name = "IDENTITY_UPDATE_EMAIL" -> <<"IDENTITY", "UPDATE", "EMAIL">>
      [] name = "IDENTITY_UPDATE_PASSWORD" -> <<"IDENTITY", "UPDATE", "PASSWORD">>
      [] name = "MEMORY_SET_AUTH_STATE" -> <<"MEMORY", "SET", "AUTH", "STATE">>
      [] name = "MEMORY_SET_LOADING_STATE" -> <<"MEMORY", "SET", "LOADING", "STATE">>
      [] name = "MEMORY_SET_ERROR_STATE" -> <<"MEMORY", "SET", "ERROR", "STATE">>
      [] name = "MEMORY_CLEAR_ERROR_STATE" -> <<"MEMORY", "CLEAR", "ERROR", "STATE">>
      [] name = "STORAGE_UPLOAD_PUBLIC_PHOTO" -> <<"STORAGE", "UPLOAD", "PUBLIC", "PHOTO">>
      [] name = "STORAGE_UPLOAD_PRIVATE_FILE" -> <<"STORAGE", "UPLOAD", "PRIVATE", "FILE">>
      [] name = "STORAGE_DELETE_FILE" -> <<"STORAGE", "DELETE", "FILE">>
      [] name = "NAVIGATE_TO_LOGIN" -> <<"NAVIGATE", "TO", "LOGIN">>
      [] name = "NAVIGATE_TO_SIGNUP" -> <<"NAVIGATE", "TO", "SIGNUP">>
      [] name = "NAVIGATE_TO_MAIN_APP" -> <<"NAVIGATE", "TO", "MAIN", "APP">>
      [] name = "NAVIGATE_TO_FORGOT_PASSWORD" -> <<"NAVIGATE", "TO", "FORGOT", "PASSWORD">>
      [] name = "NAVIGATE_TO_VERIFY_EMAIL" -> <<"NAVIGATE", "TO", "VERIFY", "EMAIL">>
      [] name = "GHOST_INTENT" -> <<"GHOST", "INTENT">>
      [] name = "AUTH_LOGIN" -> <<"AUTH", "LOGIN">>
      [] name = "AUTH_SIGNUP" -> <<"AUTH", "SIGNUP">>
      [] name = "AUTH_SEND_PASSWORD" -> <<"AUTH", "SEND", "PASSWORD">>
      [] name = "AUTH_SEND_EMAIL" -> <<"AUTH", "SEND", "EMAIL">>
      [] name = "STORAGE_UPLOAD" -> <<"STORAGE", "UPLOAD">>
      [] name = "STORAGE_DELETE" -> <<"STORAGE", "DELETE">>
      [] OTHER -> << name >>

\* Faulty variant of StartsWith: the first word alone is compared
StartsWith_FirstWord(intentGlyph, prefix) ==
    Words(intentGlyph)[1] = Words(prefix)[1]

\* intentGlyph.startsWith(prefix).  Every prefix tested ends where a word
\* ends, and no name of the glossary continues a tested prefix inside a
\* word, so the comparison is made word by word.
StartsWith(intentGlyph, prefix) ==
    /\ Len(Words(prefix)) <= Len(Words(intentGlyph))
    /\ SubSeq(Words(intentGlyph), 1, Len(Words(prefix))) = Words(prefix)

mapIntentToErrorSource(intentGlyph) ==
    IF StartsWith(intentGlyph, "AUTH_LOGIN") THEN "ERROR_AUTH_LOGIN"
    ELSE IF StartsWith(intentGlyph, "AUTH_SIGNUP") THEN "ERROR_AUTH_SIGNUP"
    ELSE IF StartsWith(intentGlyph, "AUTH_SIGNOUT") THEN "ERROR_AUTH_SIGNOUT"
    ELSE IF StartsWith(intentGlyph, "AUTH_SEND_PASSWORD") THEN "ERROR_AUTH_PASSWORD_RESET"
    ELSE IF StartsWith(intentGlyph, "AUTH_SEND_EMAIL") THEN "ERROR_AUTH_EMAIL_VERIFICATION"
    ELSE IF StartsWith(intentGlyph, "STORAGE_UPLOAD") THEN "ERROR_STORAGE_UPLOAD"
    ELSE IF StartsWith(intentGlyph, "STORAGE_DELETE") THEN "ERROR_STORAGE_DELETE"
    ELSE "ERROR_UNKNOWN"

createError(code, message, intentGlyph, t) ==
    [code |-> code, message |-> message, intentGlyph |-> intentGlyph, timestamp |-> t]

maxLogEntries == 100

\* Faulty variant of logExecution: a full log drops the entry just pushed
logExecution_DropsNewest(log, intentGlyph, success, startTime, errorCode, t) ==
    LET entry == [intentGlyph |-> intentGlyph, success |-> success,
                  duration |-> t - startTime, timestamp |-> t, errorCode |-> errorCode]
        pushed == Append(log, entry)
    IN  IF Len(pushed) > maxLogEntries THEN SubSeq(pushed, 1, maxLogEntries) ELSE pushed

logExecution(log, intentGlyph, success, startTime, errorCode, t) ==
    LET entry == [intentGlyph |-> intentGlyph, success |-> success,
                  duration |-> t - startTime, timestamp |-> t, errorCode |-> errorCode]
        pushed == Append(log, entry)
    IN  IF Len(pushed) > maxLogEntries THEN Tail(pushed) ELSE pushed

\* currentDrift.toFixed(3), in thousandths
toFixed3(drift) == (2 * drift * 10 + DriftScale) \div (2 * DriftScale)

\* An invocation of execute that has not been made yet
IdleCall == [pc |-> "idle", intentGlyph |-> "", startTime |-> 0, invocations |-> 0,
             body |-> "", settled |-> NULL, result |-> NULL]

\* The three ways a call ends and the value the caller gets
Returned(call, result) == [call EXCEPT !.pc = "returned", !.result = Some(result)]

Escaped(call) == [call EXCEPT !.pc = "rejected"]

\* Faulty variant of errorMessageOf: the message of the failure is dropped
errorMessageOf_Generic(executionError) == "Unknown execution error"

\* executionError instanceof Error ? executionError.message : 'Unknown execution error'
errorMessageOf(executionError) ==
    IF executionError.isError THEN executionError.message ELSE "Unknown execution error"

\* Faulty variant of executeCatch: the failure is returned and logged but not
\* recorded in the error phase of the store
executeCatch_Unrecorded(M, log, call, executionError, t) ==
    LET intentGlyph == call.intentGlyph
        errorMessage == errorMessageOf(executionError)
        error == createError("EXECUTION_FAILED",
                             <<"Intent", intentGlyph, "execution failed:", errorMessage>>,
                             intentGlyph, t)
        M2 == setPhaseStability([M EXCEPT !.threw = FALSE], "DRIFT_DETECTED", t)
    IN  IF M2.threw THEN [M |-> M2, log |-> log, call |-> Escaped(call)]
        ELSE [M |-> M2,
              log |-> logExecution(log, intentGlyph, FALSE, call.startTime,
                                   Some("EXECUTION_FAILED"), t),
              call |-> Returned(call, [success |-> FALSE, error |-> error,
                                       drift |-> getAverageDrift(M2)])]

\* The catch block of execute, entered with the store M the try block left
executeCatch(M, log, call, executionError, t) ==
    LET intentGlyph == call.intentGlyph
        errorMessage == errorMessageOf(executionError)
        error == createError("EXECUTION_FAILED",
                             <<"Intent", intentGlyph, "execution failed:", errorMessage>>,
                             intentGlyph, t)
        M1 == setError([M EXCEPT !.threw = FALSE], "EXECUTION_FAILED", errorMessage,
                       mapIntentToErrorSource(intentGlyph), t)
        M2 == setPhaseStability(M1, "DRIFT_DETECTED", t)
    IN  IF M1.threw THEN [M |-> M1, log |-> log, call |-> Escaped(call)]
        ELSE IF M2.threw THEN [M |-> M2, log |-> log, call |-> Escaped(call)]
        ELSE [M |-> M2,
              log |-> logExecution(log, intentGlyph, FALSE, call.startTime,
                                   Some("EXECUTION_FAILED"), t),
              call |-> Returned(call, [success |-> FALSE, error |-> error,
                                       drift |-> getAverageDrift(M2)])]

\* Faulty variant of executeReject: the rejection is returned but not logged
executeReject_Unlogged(M, log, call, code, message, drift, t) ==
    [M |-> M,
     log |-> log,
     call |-> Returned(call, [success |-> FALSE,
                              error |-> createError(code, message, call.intentGlyph, t),
                              drift |-> drift])]

\* Faulty variant of executeReject: the rejection is recorded in the store
executeReject_Recording(M, log, call, code, message, drift, t) ==
    [M |-> setError(M, code, "rejected", mapIntentToErrorSource(call.intentGlyph), t),
     log |-> logExecution(log, call.intentGlyph, FALSE, call.startTime, Some(code), t),
     call |-> Returned(call, [success |-> FALSE,
                              error |-> createError(code, message, call.intentGlyph, t),
                              drift |-> drift])]

\* A rejection at one of the gates 1-3: logged, returned, the store untouched
executeReject(M, log, call, code, message, drift, t) ==
    [M |-> M,
     log |-> logExecution(log, call.intentGlyph, FALSE, call.startTime, Some(code), t),
     call |-> Returned(call, [success |-> FALSE,
                              error |-> createError(code, message, call.intentGlyph, t),
                              drift |-> drift])]

\* Faulty variant of entropyExceeded: the bound itself is refused too
entropyExceeded_Inclusive(currentDrift, entropyThreshold) ==
    currentDrift >= Scaled(entropyThreshold) * 2

\* currentDrift > entropyThreshold * 2
entropyExceeded(currentDrift, entropyThreshold) ==
    currentDrift > Scaled(entropyThreshold) * 2

\* Faulty variant of executeBegin: the stability gate is evaluated before the
\* authentication gate
executeBegin_StabilityFirst(M, log, call0, intentGlyph, executor, t) ==
    LET call == [call0 EXCEPT !.intentGlyph = intentGlyph, !.startTime = t]
        startDrift == getAverageDrift(M)
        currentDrift == getAverageDrift(M)
        entropyThreshold == getEntropyThreshold(intentGlyph)
        M1 == setPhaseStability(M, "TRANSITIONING", t)
        invoked == [call EXCEPT !.invocations = @ + 1]
    IN  IF ~isIntentPermitted(intentGlyph)
        THEN executeReject(M, log, call, "INTENT_NOT_PERMITTED",
                           <<"Intent", intentGlyph, "is not registered in the Intent Glossary">>,
                           startDrift, t)
        ELSE IF entropyExceeded(currentDrift, entropyThreshold)
        THEN executeReject(M, log, call, "ENTROPY_THRESHOLD_EXCEEDED",
                           <<"System entropy", ToString(toFixed3(currentDrift)),
                             "exceeds safe threshold for intent", intentGlyph,
                             "max", ToString(entropyThreshold)>>,
                           currentDrift, t)
        ELSE IF intentRequiresAuth(intentGlyph) /\ ~isUserAuthenticated(M)
        THEN executeReject(M, log, call, "AUTH_REQUIRED",
                           <<"Intent", intentGlyph, "requires authentication">>,
                           startDrift, t)
        ELSE IF M1.threw
        THEN executeCatch(M1, log, call, CallbackError, t)
        ELSE IF executor.throws # NULL
        THEN executeCatch(M1, log,
                          [invoked EXCEPT !.settled =
                              Some([kind |-> "threw", failure |-> executor.throws[1]])],
                          executor.throws[1], t)
        ELSE [M |-> M1, log |-> log, call |-> [invoked EXCEPT !.pc = "awaiting"]]

\* Faulty variant of executeBegin: a call made while the stability is
\* TRANSITIONING is refused
executeBegin_Locked(M, log, call0, intentGlyph, executor, t) ==
    LET call == [call0 EXCEPT !.intentGlyph = intentGlyph, !.startTime = t]
        startDrift == getAverageDrift(M)
        currentDrift == getAverageDrift(M)
        entropyThreshold == getEntropyThreshold(intentGlyph)
        M1 == setPhaseStability(M, "TRANSITIONING", t)
        invoked == [call EXCEPT !.invocations = @ + 1]
    IN  IF M.state.phaseStability = "TRANSITIONING"
        THEN executeReject(M, log, call, "EXECUTION_IN_PROGRESS",
                           <<"Intent", intentGlyph, "refused: another intent is executing">>,
                           startDrift, t)
        ELSE IF ~isIntentPermitted(intentGlyph)
        THEN executeReject(M, log, call, "INTENT_NOT_PERMITTED",
                           <<"Intent", intentGlyph, "is not registered in the Intent Glossary">>,
                           startDrift, t)
        ELSE IF intentRequiresAuth(intentGlyph) /\ ~isUserAuthenticated(M)
        THEN executeReject(M, log, call, "AUTH_REQUIRED",
                           <<"Intent", intentGlyph, "requires authentication">>,
                           startDrift, t)
        ELSE IF entropyExceeded(currentDrift, entropyThreshold)
        THEN executeReject(M, log, call, "ENTROPY_THRESHOLD_EXCEEDED",
                           <<"System entropy", ToString(toFixed3(currentDrift)),
                             "exceeds safe threshold for intent", intentGlyph,
                             "max", ToString(entropyThreshold)>>,
                           currentDrift, t)
        ELSE IF M1.threw
        THEN executeCatch(M1, log, call, CallbackError, t)
        ELSE IF executor.throws # NULL
        THEN executeCatch(M1, log,
                          [invoked EXCEPT !.settled =
                              Some([kind |-> "threw", failure |-> executor.throws[1]])],
                          executor.throws[1], t)
        ELSE [M |-> M1, log |-> log, call |-> [invoked EXCEPT !.pc = "awaiting"]]

\* execute up to its first suspension: gates 1-3, then the try block up to
\* `await executor()`.  executor.throws is the failure the executor raises
\* synchronously (before it returns a promise), or NULL.
executeBegin(M, log, call0, intentGlyph, executor, t) ==
    LET call == [call0 EXCEPT !.intentGlyph = intentGlyph, !.startTime = t]
        startDrift == getAverageDrift(M)
        currentDrift == getAverageDrift(M)
        entropyThreshold == getEntropyThreshold(intentGlyph)
        M1 == setPhaseStability(M, "TRANSITIONING", t)
        invoked == [call EXCEPT !.invocations = @ + 1]
    IN  IF ~isIntentPermitted(intentGlyph)
        THEN executeReject(M, log, call, "INTENT_NOT_PERMITTED",
                           <<"Intent", intentGlyph, "is not registered in the Intent Glossary">>,
                           startDrift, t)
        ELSE IF intentRequiresAuth(intentGlyph) /\ ~isUserAuthenticated(M)
        THEN executeReject(M, log, call, "AUTH_REQUIRED",
                           <<"Intent", intentGlyph, "requires authentication">>,
                           startDrift, t)
        ELSE IF entropyExceeded(currentDrift, entropyThreshold)
        THEN executeReject(M, log, call, "ENTROPY_THRESHOLD_EXCEEDED",
                           <<"System entropy", ToString(toFixed3(currentDrift)),
                             "exceeds safe threshold for intent", intentGlyph,
                             "max", ToString(entropyThreshold)>>,
                           currentDrift, t)
        ELSE IF M1.threw
        THEN executeCatch(M1, log, call, CallbackError, t)
        ELSE IF executor.throws # NULL
        THEN executeCatch(M1, log,
                          [invoked EXCEPT !.settled =
                              Some([kind |-> "threw", failure |-> executor.throws[1]])],
                          executor.throws[1], t)
        ELSE [M |-> M1, log |-> log, call |-> [invoked EXCEPT !.pc = "awaiting"]]

\* Faulty variant of executeResumeResolved: a stability of DRIFT_DETECTED
\* written by another call is not overwritten
executeResumeResolved_UnlessDrifting(M, log, call, value, t) ==
    LET finalDrift == getAverageDrift(M)
        M1 == IF M.state.phaseStability = "DRIFT_DETECTED"
              THEN [M EXCEPT !.delivered = << >>]
              ELSE setPhaseStability(M, "STABLE", t)
    IN  [M |-> M1,
         log |-> logExecution(log, call.intentGlyph, TRUE, call.startTime, NULL, t),
         call |-> Returned(call, [success |-> TRUE, data |-> value,
                                  drift |-> finalDrift])]

\* Faulty variant of executeResumeResolved: a success clears the error an
\* earlier failure left
executeResumeResolved_ClearsError(M, log, call, value, t) ==
    LET finalDrift == getAverageDrift(M)
        M1 == setPhaseStability(clearError(M, t), "STABLE", t)
    IN  [M |-> M1,
         log |-> logExecution(log, call.intentGlyph, TRUE, call.startTime, NULL, t),
         call |-> Returned(call, [success |-> TRUE, data |-> value,
                                  drift |-> finalDrift])]

\* Faulty variant of executeResumeResolved: the stability is left as it is
executeResumeResolved_NoStable(M, log, call, value, t) ==
    [M |-> M,
     log |-> logExecution(log, call.intentGlyph, TRUE, call.startTime, NULL, t),
     call |-> Returned(call, [success |-> TRUE, data |-> value,
                              drift |-> getAverageDrift(M)])]

\* Variant of executeResumeResolved that writes the value the operation
\* resolved with into the auth phase of the store
executeResumeResolved_WritesResult(M, log, call, value, t) ==
    LET finalDrift == getAverageDrift(M)
        M0 == IF value = NULL THEN M
              ELSE setAuthPhase(M, [currentUser |-> value, isAuthenticated |-> TRUE], t)
        M1 == setPhaseStability(M0, "STABLE", t)
    IN  [M |-> M1,
         log |-> logExecution(log, call.intentGlyph, TRUE, call.startTime, NULL, t),
         call |-> Returned(call, [success |-> TRUE, data |-> value,
                                  drift |-> finalDrift])]

\* execute after `await executor()` resolved with value
executeResumeResolved(M, log, call, value, t) ==
    LET finalDrift == getAverageDrift(M)
        M1 == setPhaseStability(M, "STABLE", t)
    IN  IF M1.threw
        THEN executeCatch(M1, log, call, CallbackError, t)
        ELSE [M |-> M1,
              log |-> logExecution(log, call.intentGlyph, TRUE, call.startTime, NULL, t),
              call |-> Returned(call, [success |-> TRUE, data |-> value,
                                       drift |-> finalDrift])]

\* Faulty variant of executeResume: a rejected operation is awaited again
executeResume_Retries(M, log, call, t) ==
    LET outcome == call.settled[1]
    IN  IF outcome.kind = "resolved"
        THEN executeResumeResolved(M, log, call, outcome.value, t)
        ELSE [M |-> [M EXCEPT !.delivered = << >>], log |-> log,
              call |-> [call EXCEPT !.pc = "awaiting", !.invocations = @ + 1,
                                    !.settled = NULL]]

\* execute after `await executor()` settled
executeResume(M, log, call, t) ==
    LET outcome == call.settled[1]
    IN  IF outcome.kind = "resolved"
        THEN executeResumeResolved(M, log, call, outcome.value, t)
        ELSE executeCatch(M, log, call, outcome.failure, t)

\* Faulty variant of canExecute: the stability gate is left out
canExecute_NoStabilityGate(M, intentGlyph) ==
    IF ~isIntentPermitted(intentGlyph)
    THEN [canExecute |-> FALSE, reason |-> Some("Intent not permitted")]
    ELSE IF intentRequiresAuth(intentGlyph) /\ ~isUserAuthenticated(M)
    THEN [canExecute |-> FALSE, reason |-> Some("Authentication required")]
    ELSE [canExecute |-> TRUE, reason |-> NULL]

canExecute(M, intentGlyph) ==
    IF ~isIntentPermitted(intentGlyph)
    THEN [canExecute |-> FALSE, reason |-> Some("Intent not permitted")]
    ELSE IF intentRequiresAuth(intentGlyph) /\ ~isUserAuthenticated(M)
    THEN [canExecute |-> FALSE, reason |-> Some("Authentication required")]
    ELSE IF entropyExceeded(getAverageDrift(M), getEntropyThreshold(intentGlyph))
    THEN [canExecute |-> FALSE, reason |-> Some("System entropy too high")]
    ELSE [canExecute |-> TRUE, reason |-> NULL]

\* -------------------------------------------------------------------------
\* The executors callers hand to execute
\* -------------------------------------------------------------------------
Users == {[uid |-> "u1", emailVerified |-> FALSE], [uid |-> "u1", emailVerified |-> TRUE]}

\* What an operation resolves with: nothing (void) or a user record
OpValues == {NULL} \cup {Some(u) : u \in Users}

\* What an operation raises: an Error, or a value that is no Error (a thrown
\* string or plain object) carrying the same text
OpFailures == {[isError |-> TRUE, message |-> "bad credentials"],
               [isError |-> FALSE, message |-> "bad credentials"]}

\* The operation bodies of the auth intent engine that write to the store;
\* every other operation is "plain"
Bodies(intentGlyph) ==
    {"plain"} \cup
    (CASE intentGlyph = "AUTH_SIGNOUT" -> {"signOutUser"}
       [] intentGlyph = "AUTH_RELOAD_USER" -> {"reloadCurrentUser"}
       [] intentGlyph = "IDENTITY_UPDATE_PROFILE" -> {"updateUserProfile"}
       [] intentGlyph = "IDENTITY_UPDATE_EMAIL" -> {"updateUserEmail"}
       [] OTHER -> {})

Executors(intentGlyph) ==
    [throws : {NULL} \cup {Some(f) : f \in OpFailures}, body : Bodies(intentGlyph)]

\* The values a body can resolve with
BodyValues(body) ==
    CASE body = "signOutUser" -> {NULL}
      [] body = "reloadCurrentUser" -> {Some(u) : u \in Users}
      [] body = "updateUserProfile" -> {NULL}
      [] body = "updateUserEmail" -> {NULL}
      [] OTHER -> OpValues

\* The values auth.currentUser can hold when a body reads it (one value, not
\* read, for the bodies that do not)
BodyUsers(body) ==
    IF body \in {"reloadCurrentUser", "updateUserProfile", "updateUserEmail"}
    THEN Users
    ELSE {[uid |-> "u1", emailVerified |-> FALSE]}

\* The store writes a body makes before it resolves; user is auth.currentUser
bodyEffect(M, body, user, t) ==
    CASE body = "signOutUser" -> reset(M, t)
      [] body = "reloadCurrentUser" ->
            setAuthPhase(M, [currentUser |-> Some(user),
                             emailVerified |-> user.emailVerified], t)
      [] body = "updateUserProfile" -> setAuthPhase(M, [currentUser |-> Some(user)], t)
      [] body = "updateUserEmail" ->
            setAuthPhase(M, [currentUser |-> Some(user), emailVerified |-> FALSE], t)
      [] OTHER -> M

\* -------------------------------------------------------------------------
\* AuthStateObserverIntent
\* -------------------------------------------------------------------------
\* 'INITIALIZING' and 'NO_CHANGE' differ by the time since the observer
\* started and are handled alike; both are "NO_CHANGE" here.
detectTransition(prevUser, prevEmailVerified, newUser) ==
    IF prevUser = NULL /\ newUser # NULL THEN "USER_LOGGED_IN"
    ELSE IF prevUser # NULL /\ newUser = NULL THEN "USER_LOGGED_OUT"
    ELSE IF prevUser # NULL /\ newUser # NULL /\ prevUser[1].uid = newUser[1].uid
    THEN (IF ~prevEmailVerified /\ newUser[1].emailVerified
          THEN "EMAIL_VERIFIED" ELSE "USER_STATE_REFRESHED")
    ELSE "NO_CHANGE"

determineTargetView(user) ==
    IF user = NULL THEN "VIEW_LOGIN"
    ELSE IF ~user[1].emailVerified THEN "VIEW_VERIFY_EMAIL"
    ELSE "VIEW_MAIN_APP"

updateShellMemory(M, user, transition, t) ==
    LET M1 == setAuthPhase(M, [currentUser |-> user,
                               isAuthenticated |-> user # NULL,
                               emailVerified |-> IF user = NULL THEN FALSE
                                                 ELSE user[1].emailVerified,
                               authLoadingComplete |-> TRUE,
                               lastAuthEventTimestamp |-> Some(t)], t)
        M2 == IF transition \in {"USER_LOGGED_IN", "EMAIL_VERIFIED"}
              THEN clearError(M1, t) ELSE M1
        M3 == IF transition = "USER_LOGGED_OUT"
              THEN setUIPhase(M2, [formState |-> EmptyForm], t) ELSE M2
    IN  IF M1.threw THEN M1 ELSE IF M2.threw THEN M2 ELSE M3

handleAuthStateChange(M, user, t) ==
    LET transition == detectTransition(previousUser, previousEmailVerified, user)
        M1 == updateShellMemory(M, user, transition, t)
    IN  IF M1.threw THEN M1
        ELSE setUIPhase(M1, [currentView |-> determineTargetView(user),
                             isLoading |-> FALSE], t)

\* -------------------------------------------------------------------------
\* The inputs callers give
\* -------------------------------------------------------------------------
IntentInputs == {"AUTH_LOGIN_WITH_EMAIL", "AUTH_SIGNOUT", "GHOST_INTENT"}

AuthEvents == {NULL, Some([uid |-> "u1", emailVerified |-> FALSE])}

AuthUpdates == {[currentUser |-> Some([uid |-> "u1", emailVerified |-> FALSE]),
                 isAuthenticated |-> TRUE]}

UIUpdates == {[currentView |-> "VIEW_SIGNUP"],
              [isLoading |-> FALSE],
              [currentView |-> "VIEW_LOGIN", previousView |-> Some("VIEW_MAIN_APP")]}

FormUpdates == {[email |-> "a@b.c"]}

ErrorInputs == {[code |-> "auth/wrong-password", message |-> "Incorrect password",
                 source |-> "ERROR_AUTH_LOGIN"]}

StabilityInputs == {"STALLED"}

\* -------------------------------------------------------------------------
\* The state machine
\* -------------------------------------------------------------------------
Init ==
    /\ now = 0
    /\ state = INITIAL_PHASE_MEMORY(0)
    /\ stateRef = 0
    /\ driftHistory = << >>
    /\ subscribers = << >>
    /\ delivered = << >>
    /\ uncaught = FALSE
    /\ executionLog = << >>
    /\ calls = << >>
    /\ steps = 0
    /\ verdict = NULL
    /\ previousUser = NULL
    /\ previousEmailVerified = FALSE

\* One more step of the behaviour
Step ==
    /\ steps < MaxSteps
    /\ steps' = steps + 1

\* The store after a handler: M is what the handler made of Store
StoreBecomes(M) ==
    /\ state' = M.state
    /\ stateRef' = M.stateRef
    /\ driftHistory' = M.driftHistory
    /\ subscribers' = M.subscribers
    /\ delivered' = M.delivered

storeVars == <<state, stateRef, driftHistory, subscribers>>

gatewayVars == <<executionLog, calls>>

observerVars == <<previousUser, previousEmailVerified>>

\* A direct call of a store operation by application code
StoreCall(M) ==
    /\ Step
    /\ StoreBecomes(M)
    /\ uncaught' = M.threw
    /\ UNCHANGED <<now, gatewayVars, verdict, observerVars>>

SetAuthPhase == \E update \in AuthUpdates : StoreCall(setAuthPhase(Store, update, now))

SetUIPhase == \E update \in UIUpdates : StoreCall(setUIPhase(Store, update, now))

SetFormPhase == \E update \in FormUpdates : StoreCall(setFormPhase(Store, update, now))

SetError ==
    \E e \in ErrorInputs : StoreCall(setError(Store, e.code, e.message, e.source, now))

ClearError == StoreCall(clearError(Store, now))

SetPhaseStability ==
    \E stability \in StabilityInputs : StoreCall(setPhaseStability(Store, stability, now))

Reset == StoreCall(reset(Store, now))

Subscribe ==
    \E callback \in Callbacks :
        /\ \A i \in DOMAIN subscribers : subscribers[i] # callback
        /\ StoreCall(subscribe(Store, callback))

Unsubscribe ==
    \E callback \in Callbacks :
        /\ \E i \in DOMAIN subscribers : subscribers[i] = callback
        /\ StoreCall(unsubscribe(Store, callback))

\* onAuthStateChanged delivers user to the observer
AuthStateChange ==
    \E user \in AuthEvents :
        LET M == handleAuthStateChange(Store, user, now)
        IN  /\ Step
            /\ StoreBecomes(M)
            /\ uncaught' = M.threw
            /\ previousUser' = IF M.threw THEN previousUser ELSE user
            /\ previousEmailVerified' =
                  IF M.threw THEN previousEmailVerified
                  ELSE IF user = NULL THEN FALSE ELSE user[1].emailVerified
            /\ UNCHANGED <<now, gatewayVars, verdict>>

\* The gateway after a step of a call: X is [M, log, call]
GatewayBecomes(X, newCalls) ==
    /\ Step
    /\ StoreBecomes(X.M)
    /\ executionLog' = X.log
    /\ calls' = newCalls
    /\ uncaught' = FALSE
    /\ UNCHANGED <<now, verdict, observerVars>>

\* execute(intentGlyph, executor) is called and runs to its first suspension
Execute ==
    \E intentGlyph \in IntentInputs :
        \E executor \in Executors(intentGlyph) :
            LET X == executeBegin(Store, executionLog, IdleCall, intentGlyph, executor, now)
                call == IF X.call.pc = "awaiting"
                        THEN [X.call EXCEPT !.body = executor.body]
                        ELSE X.call
            IN  GatewayBecomes(X, Append(calls, call))

\* The pending operation of call c resolves, after its body wrote to the store
OpResolves ==
    \E c \in DOMAIN calls :
        \E value \in BodyValues(calls[c].body), user \in BodyUsers(calls[c].body) :
            LET M == bodyEffect(Store, calls[c].body, user, now)
                outcome == IF M.threw
                           THEN [kind |-> "rejected", failure |-> CallbackError]
                           ELSE [kind |-> "resolved", value |-> value]
            IN  /\ calls[c].pc = "awaiting"
                /\ calls[c].body = "reloadCurrentUser" => value = Some(user)
                /\ Step
                /\ StoreBecomes([M EXCEPT !.threw = FALSE])
                /\ calls' = [calls EXCEPT ![c].pc = "settled",
                                          ![c].settled = Some(outcome)]
                /\ uncaught' = FALSE
                /\ UNCHANGED <<now, executionLog, verdict, observerVars>>

\* The pending operation of call c rejects
OpRejects ==
    \E c \in DOMAIN calls, failure \in OpFailures :
        /\ calls[c].pc = "awaiting"
        /\ Step
        /\ calls' = [calls EXCEPT ![c].pc = "settled",
                                  ![c].settled = Some([kind |-> "rejected",
                                                       failure |-> failure])]
        /\ delivered' = << >>
        /\ uncaught' = FALSE
        /\ UNCHANGED <<storeVars, now, executionLog, verdict, observerVars>>

\* execute continues after its await
ExecuteResume ==
    \E c \in DOMAIN calls :
        /\ calls[c].pc = "settled"
        /\ LET X == executeResume(Store, executionLog, calls[c], now)
           IN  GatewayBecomes(X, [calls EXCEPT ![c] = X.call])

CanExecute ==
    \E intentGlyph \in IntentInputs :
        /\ Step
        /\ verdict' = Some([intentGlyph |-> intentGlyph,
                             result |-> canExecute(Store, intentGlyph)])
        /\ delivered' = << >>
        /\ uncaught' = FALSE
        /\ UNCHANGED <<storeVars, now, gatewayVars, observerVars>>

\* The clock advances
Tick ==
    /\ Step
    /\ now' = now + 1
    /\ UNCHANGED <<storeVars, delivered, uncaught, gatewayVars, verdict, observerVars>>

Next ==
    \/ SetAuthPhase
    \/ SetUIPhase
    \/ SetFormPhase
    \/ SetError
    \/ ClearError
    \/ SetPhaseStability
    \/ Reset
    \/ Subscribe
    \/ Unsubscribe
    \/ AuthStateChange
    \/ Execute
    \/ OpResolves
    \/ OpRejects
    \/ ExecuteResume
    \/ Tick

\* The store alone: direct calls of its operations and the clock
NextStore ==
    \/ SetAuthPhase
    \/ SetUIPhase
    \/ SetFormPhase
    \/ SetError
    \/ ClearError
    \/ SetPhaseStability
    \/ Reset
    \/ Subscribe
    \/ Unsubscribe
    \/ Tick

SpecStore == Init /\ [][NextStore]_vars

\* The handlers together with canExecute
NextCan ==
    \/ Next
    \/ CanExecute

SpecCan == Init /\ [][NextCan]_vars

\* The continuation of execute after its await is run by the event loop once
\* the awaited promise has settled, whatever else the application does
ExecuteResumeScheduled ==
    \E c \in DOMAIN calls :
        /\ calls[c].pc = "settled"
        /\ \E X \in {executeResume(Store, executionLog, calls[c], now)} :
              /\ StoreBecomes(X.M)
              /\ executionLog' = X.log
              /\ calls' = [calls EXCEPT ![c] = X.call]
              /\ uncaught' = FALSE
              /\ UNCHANGED <<now, steps, verdict, observerVars>>

NextLive ==
    \/ Execute
    \/ OpResolves
    \/ OpRejects
    \/ ExecuteResumeScheduled

LiveSpec == Init /\ [][NextLive]_vars /\ WF_vars(ExecuteResumeScheduled)

\* The gateway after PriorCalls earlier calls of execute with an undeclared
\* name, made one per millisecond: the log those calls left
PriorCalls == 99

\* (PriorCalls is within the capacity of the log, so nothing was evicted)
PriorLog ==
    [k \in 1..PriorCalls |->
        [intentGlyph |-> "GHOST_INTENT", success |-> FALSE, duration |-> 0,
         timestamp |-> k, errorCode |-> Some("INTENT_NOT_PERMITTED")]]

InitLog ==
    /\ now = PriorCalls
    /\ executionLog = PriorLog
    /\ state = INITIAL_PHASE_MEMORY(0)
    /\ stateRef = 0
    /\ driftHistory = << >>
    /\ subscribers = << >>
    /\ delivered = << >>
    /\ uncaught = FALSE
    /\ calls = << >>
    /\ steps = 0
    /\ verdict = NULL
    /\ previousUser = NULL
    /\ previousEmailVerified = FALSE

\* The gateway alone: calls of execute, their operations and the clock
NextLog ==
    \/ Execute
    \/ OpResolves
    \/ OpRejects
    \/ ExecuteResume
    \/ Tick

SpecLog == InitLog /\ [][NextLog]_vars

\* The store after PriorMutations earlier calls of setUIPhase that went back
\* and forth between VIEW_SIGNUP and VIEW_LOGIN, all within the first
\* millisecond: each recorded the drift of a view transition
PriorMutations == 9

RECURSIVE AfterViewChanges(_)
AfterViewChanges(k) ==
    IF k = 0
    THEN [state |-> INITIAL_PHASE_MEMORY(0), stateRef |-> 0, driftHistory |-> << >>,
          subscribers |-> << >>, delivered |-> << >>, threw |-> FALSE]
    ELSE setUIPhase(AfterViewChanges(k - 1),
                    IF k % 2 = 1
                    THEN [currentView |-> "VIEW_SIGNUP"]
                    ELSE [currentView |-> "VIEW_LOGIN",
                          previousView |-> Some("VIEW_MAIN_APP")],
                    0)

InitDrift ==
    /\ now = 0
    /\ state = AfterViewChanges(PriorMutations).state
    /\ stateRef = AfterViewChanges(PriorMutations).stateRef
    /\ driftHistory = AfterViewChanges(PriorMutations).driftHistory
    /\ subscribers = << >>
    /\ delivered = << >>
    /\ uncaught = FALSE
    /\ executionLog = << >>
    /\ calls = << >>
    /\ steps = 0
    /\ verdict = NULL
    /\ previousUser = NULL
    /\ previousEmailVerified = FALSE

SpecDrift == InitDrift /\ [][NextStore]_vars

\* The store after the auth observer recorded the login of a verified user
\* and QuietWrites calls setUIPhase({isLoading: false}) followed, all within
\* the first millisecond: each of them recorded a drift of 0
QuietWrites == 10

RECURSIVE AfterQuietWrites(_)
AfterQuietWrites(k) ==
    IF k = 0
    THEN LET user == Some([uid |-> "u1", emailVerified |-> TRUE])
             S0 == [state |-> INITIAL_PHASE_MEMORY(0), stateRef |-> 0,
                    driftHistory |-> << >>, subscribers |-> << >>,
                    delivered |-> << >>, threw |-> FALSE]
         IN  setUIPhase(updateShellMemory(S0, user, "USER_LOGGED_IN", 0),
                        [currentView |-> determineTargetView(user),
                         isLoading |-> FALSE], 0)
    ELSE setUIPhase(AfterQuietWrites(k - 1), [isLoading |-> FALSE], 0)

InitSource ==
    /\ now = 0
    /\ state = AfterQuietWrites(QuietWrites).state
    /\ stateRef = AfterQuietWrites(QuietWrites).stateRef
    /\ driftHistory = AfterQuietWrites(QuietWrites).driftHistory
    /\ subscribers = << >>
    /\ delivered = << >>
    /\ uncaught = FALSE
    /\ executionLog = << >>
    /\ calls = << >>
    /\ steps = 0
    /\ verdict = NULL
    /\ previousUser = Some([uid |-> "u1", emailVerified |-> TRUE])
    /\ previousEmailVerified = TRUE

\* The number of calls of execute with a declared name a behaviour holds
MaxDeclaredCalls == 2

\* execute is called with any name the glossary declares and an operation
\* that fails at once or stays pending, by a caller that awaits each call
\* before it makes the next
ExecuteDeclared ==
    \E intentGlyph \in GlossaryGlyphs :
        \E executor \in {[throws |-> Some([isError |-> TRUE, message |-> "bad credentials"]),
                          body |-> "plain"],
                         [throws |-> NULL, body |-> "plain"]} :
            LET X == executeBegin(Store, executionLog, IdleCall, intentGlyph, executor, now)
                call == IF X.call.pc = "awaiting"
                        THEN [X.call EXCEPT !.body = executor.body]
                        ELSE X.call
            IN  /\ Len(calls) < MaxDeclaredCalls
                /\ \A c \in DOMAIN calls : calls[c].pc = "returned"
                /\ GatewayBecomes(X, Append(calls, call))

NextSource ==
    \/ ExecuteDeclared
    \/ OpRejects
    \/ ExecuteResume

SpecSource == InitSource /\ [][NextSource]_vars

\* The store with its subscriptions: the view router of App.tsx, a callback
\* that throws and the logger of the README are registered, and each holder
\* of an unsubscribe function calls it when (and as often as) it likes
Listeners == Callbacks \cup {"logger"}

InitSubscribed ==
    /\ now = 0
    /\ state = INITIAL_PHASE_MEMORY(0)
    /\ stateRef = 0
    /\ driftHistory = << >>
    /\ subscribers = <<"render", "faulty", "logger">>
    /\ delivered = << >>
    /\ uncaught = FALSE
    /\ executionLog = << >>
    /\ calls = << >>
    /\ steps = 0
    /\ verdict = NULL
    /\ previousUser = NULL
    /\ previousEmailVerified = FALSE

SubscribeListener ==
    \E callback \in Listeners : StoreCall(subscribe(Store, callback))

\* the function subscribe(callback) returned is called
UnsubscribeListener ==
    \E callback \in Listeners : StoreCall(unsubscribe(Store, callback))

NextSubscribed ==
    \/ SubscribeListener
    \/ UnsubscribeListener
    \/ SetUIPhase
    \/ SetFormPhase
    \/ SetError
    \/ ClearError
    \/ Reset

SpecSubscribed == InitSubscribed /\ [][NextSubscribed]_vars

\* The verify-email view: every 5 seconds its interval timer calls
\* reloadCurrentUser(), which hands its operation to execute under the
\* name AUTH_RELOAD_USER
ReloadTimer ==
    \E executor \in Executors("AUTH_RELOAD_USER") :
        LET X == executeBegin(Store, executionLog, IdleCall, "AUTH_RELOAD_USER",
                              executor, now)
            call == IF X.call.pc = "awaiting"
                    THEN [X.call EXCEPT !.body = executor.body]
                    ELSE X.call
        IN  GatewayBecomes(X, Append(calls, call))

\* The observer and the timer of the verify-email view
NextVerifyEmail ==
    \/ AuthStateChange
    \/ ReloadTimer
    \/ Tick

SpecVerifyEmail == Init /\ [][NextVerifyEmail]_vars

\* The store and the gates of the gateway: the operations of the store are
\* called directly, execute and canExecute are called, and time passes
NextGate ==
    \/ SetAuthPhase
    \/ SetUIPhase
    \/ SetFormPhase
    \/ SetError
    \/ ClearError
    \/ SetPhaseStability
    \/ Reset
    \/ Execute
    \/ CanExecute
    \/ Tick

SpecGate == Init /\ [][NextGate]_vars

\* The operations of the auth intent engine that write to the store, each
\* under the name it hands to execute
SessionOperations ==
    {[intentGlyph |-> "AUTH_SIGNOUT", body |-> "signOutUser"],
     [intentGlyph |-> "AUTH_RELOAD_USER", body |-> "reloadCurrentUser"],
     [intentGlyph |-> "IDENTITY_UPDATE_PROFILE", body |-> "updateUserProfile"],
     [intentGlyph |-> "IDENTITY_UPDATE_EMAIL", body |-> "updateUserEmail"]}

\* signOutUser(), reloadCurrentUser(), updateUserProfile() or
\* updateUserEmail() is called: an async function, which fails by rejecting
SessionOperation ==
    \E op \in SessionOperations :
        LET X == executeBegin(Store, executionLog, IdleCall, op.intentGlyph,
                              [throws |-> NULL, body |-> op.body], now)
            call == IF X.call.pc = "awaiting"
                    THEN [X.call EXCEPT !.body = op.body]
                    ELSE X.call
        IN  GatewayBecomes(X, Append(calls, call))

\* A signed-in session on a quiet store: the observer delivers auth events
\* and the operations of the engine run through the gateway, overlapping
NextSession ==
    \/ AuthStateChange
    \/ SessionOperation
    \/ OpResolves
    \/ OpRejects
    \/ ExecuteResume

SpecSession == InitSource /\ [][NextSession]_vars

\* The store with a subscriber that mutates it: the view router, a callback
\* that dismisses every error it is shown, and the logger, in this order
InitReentrant ==
    /\ now = 0
    /\ state = INITIAL_PHASE_MEMORY(0)
    /\ stateRef = 0
    /\ driftHistory = << >>
    /\ subscribers = <<"render", "dismiss", "logger">>
    /\ delivered = << >>
    /\ uncaught = FALSE
    /\ executionLog = << >>
    /\ calls = << >>
    /\ steps = 0
    /\ verdict = NULL
    /\ previousUser = NULL
    /\ previousEmailVerified = FALSE

NextReentrant ==
    \/ SetAuthPhase
    \/ SetUIPhase
    \/ SetError
    \/ ClearError
    \/ SetPhaseStability
    \/ Reset
    \/ Tick

SpecReentrant == InitReentrant /\ [][NextReentrant]_vars

Spec == Init /\ [][Next]_vars

\* -------------------------------------------------------------------------
\* Vocabulary of the properties
\* -------------------------------------------------------------------------
\* The declaration of a declared glyph, read from the glossary table
DeclarationOf(intentGlyph) ==
    CHOOSE d \in {INTENT_GLOSSARY[i] : i \in DOMAIN INTENT_GLOSSARY} :
        d.intentGlyph = intentGlyph

\* The failure code a call returned, "NONE" while it has returned no failure
CodeOf(call) ==
    IF call.result # NULL /\ ~call.result[1].success
    THEN call.result[1].error.code
    ELSE "NONE"

\* The mean of history is strictly greater than twice threshold (hundredths)
MeanExceedsTwice(history, threshold) ==
    /\ Len(history) > 0
    /\ SumSeq(history) > 2 * threshold * Len(history)

GateCodes == {"INTENT_NOT_PERMITTED", "AUTH_REQUIRED", "ENTROPY_THRESHOLD_EXCEEDED"}

\* The calls this step makes: execute was invoked in this step
CallsMade == (DOMAIN calls') \ (DOMAIN calls)

\* A call that has returned stays as it is
ReturnedCallsKept ==
    \A c \in DOMAIN calls : calls[c].pc = "returned" => calls'[c] = calls[c]

\* The entry this step appended to the audit log, or NULL
EntryAppended ==
    IF Len(executionLog') = Len(executionLog) + 1
       /\ SubSeq(executionLog', 1, Len(executionLog)) = executionLog
    THEN Some(executionLog'[Len(executionLog')])
    ELSE NULL

\* -------------------------------------------------------------------------
\* C1: whatever the store holds, a call of execute with a name the glossary
\* does not declare has returned the failure INTENT_NOT_PERMITTED and its
\* operation has been invoked 0 times.
\* -------------------------------------------------------------------------
C1_UndeclaredNeverRuns ==
    \A c \in DOMAIN calls :
        calls[c].intentGlyph \notin GlossaryGlyphs =>
            /\ calls[c].pc = "returned"
            /\ CodeOf(calls[c]) = "INTENT_NOT_PERMITTED"
            /\ calls[c].invocations = 0

\* An undeclared name was refused while the user is authenticated, an error is
\* recorded or drift has been recorded
C1_Witness ==
    \E c \in DOMAIN calls :
        /\ calls[c].intentGlyph = "GHOST_INTENT"
        /\ CodeOf(calls[c]) = "INTENT_NOT_PERMITTED"
        /\ state.authPhase.isAuthenticated
        /\ driftHistory # << >>

\* -------------------------------------------------------------------------
\* C2: a call of execute with a declared glyph whose declaration requires
\* authentication, made while authPhase.isAuthenticated is false, returns the
\* failure AUTH_REQUIRED in that very step with its operation invoked 0 times,
\* and a returned call never changes afterwards.
\* -------------------------------------------------------------------------
C2_AuthRequired ==
    [][/\ ReturnedCallsKept
       /\ \A c \in CallsMade :
             LET g == calls'[c].intentGlyph
             IN  (/\ g \in GlossaryGlyphs
                  /\ DeclarationOf(g).requiresAuthentication
                  /\ ~state.authPhase.isAuthenticated)
                 => /\ calls'[c].pc = "returned"
                    /\ CodeOf(calls'[c]) = "AUTH_REQUIRED"
                    /\ calls'[c].invocations = 0]_vars

C2_Witness ==
    \E c \in DOMAIN calls :
        /\ calls[c].intentGlyph = "AUTH_SIGNOUT"
        /\ CodeOf(calls[c]) = "AUTH_REQUIRED"
        /\ calls[c].invocations = 0

C4_GateOrder ==
    [][\A c \in CallsMade :
          LET g == calls'[c].intentGlyph
              code == CodeOf(calls'[c])
          IN  IF g \notin GlossaryGlyphs
              THEN code = "INTENT_NOT_PERMITTED"
              ELSE IF DeclarationOf(g).requiresAuthentication
                      /\ ~state.authPhase.isAuthenticated
              THEN code = "AUTH_REQUIRED"
              ELSE IF MeanExceedsTwice(driftHistory, DeclarationOf(g).entropyThreshold)
              THEN code = "ENTROPY_THRESHOLD_EXCEEDED"
              ELSE code \notin GateCodes]_vars

\* AUTH_REQUIRED was returned in a store that is unauthenticated and whose
\* mean drift exceeds twice the threshold of the glyph
C4_Witness ==
    /\ calls # << >>
    /\ steps = 2
    /\ calls[Len(calls)].intentGlyph = "AUTH_SIGNOUT"
    /\ CodeOf(calls[Len(calls)]) = "AUTH_REQUIRED"
    /\ ~state.authPhase.isAuthenticated
    /\ MeanExceedsTwice(driftHistory, DeclarationOf("AUTH_SIGNOUT").entropyThreshold)

\* -------------------------------------------------------------------------
\* C5: a call of execute refused at one of the three gates leaves the store
\* as it was: the same snapshot object with the same contents (the version
\* among them), the same drift history, the same subscribers, and no
\* subscriber callback invoked.
\* -------------------------------------------------------------------------
C5_RejectionLeavesStore ==
    [][\A c \in CallsMade :
          CodeOf(calls'[c]) \in GateCodes
          => /\ stateRef' = stateRef
             /\ state' = state
             /\ driftHistory' = driftHistory
             /\ subscribers' = subscribers
             /\ delivered' = << >>]_vars

\* A call was refused while a subscriber is registered and the store has
\* been written to
C5_Witness ==
    /\ calls # << >>
    /\ CodeOf(calls[Len(calls)]) \in GateCodes
    /\ subscribers # << >>
    /\ stateRef > 0
    /\ delivered = << >>

\* The calls whose continuation after the await runs in this step
CallsResumed == {c \in DOMAIN calls : calls[c].pc = "settled" /\ calls'[c].pc # "settled"}

\* The calls that finish in this step with a failure f of their operation:
\* thrown before a promise was returned, or the rejection of the promise
FailsWith(c, f) ==
    \/ /\ c \in CallsMade
       /\ calls'[c].settled = Some([kind |-> "threw", failure |-> f])
    \/ /\ c \in CallsResumed
       /\ calls[c].settled = Some([kind |-> "rejected", failure |-> f])

\* The message (a sequence of parts) has part among its parts
Contains(message, part) == \E i \in DOMAIN message : message[i] = part

\* -------------------------------------------------------------------------
\* C6: a call of execute that passes the three gates sets the stability to
\* TRANSITIONING and notifies every subscriber of that snapshot before the
\* operation is invoked (the snapshot is current while the operation is
\* pending); when the operation has resolved with v, the step in which
\* execute returns leaves the stability STABLE, appends a success entry for
\* the intent to the execution log and returns the success result with v.
\* -------------------------------------------------------------------------
C6_AdmittedThenSuccess ==
    [][/\ \A c \in CallsMade :
             calls'[c].invocations = 1
             => /\ Len(delivered') >= Len(subscribers)
                /\ \A i \in DOMAIN subscribers :
                      /\ delivered'[i].callback = subscribers[i]
                      /\ delivered'[i].ref = stateRef + 1
                      /\ delivered'[i].snapshot.phaseStability = "TRANSITIONING"
                /\ calls'[c].pc = "awaiting"
                   => /\ state'.phaseStability = "TRANSITIONING"
                      /\ stateRef' = stateRef + 1
       /\ \A c \in CallsResumed :
             calls[c].settled[1].kind = "resolved"
             => /\ calls'[c].pc = "returned"
                /\ calls'[c].result[1].success
                /\ calls'[c].result[1].data = calls[c].settled[1].value
                /\ state'.phaseStability = "STABLE"
                /\ EntryAppended # NULL
                /\ EntryAppended[1].intentGlyph = calls[c].intentGlyph
                /\ EntryAppended[1].success]_vars

\* A call returned a success with a subscriber registered since before it
\* was made: the subscriber saw TRANSITIONING, then STABLE
C6_Witness ==
    /\ calls # << >>
    /\ steps = 4
    /\ subscribers # << >>
    /\ calls[1].pc = "returned"
    /\ calls[1].result[1].success
    /\ delivered # << >>
    /\ delivered[1].snapshot.phaseStability = "STABLE"
    /\ executionLog # << >>
    /\ executionLog[Len(executionLog)].success

\* -------------------------------------------------------------------------
\* C7 as stated: when execute of AUTH_LOGIN_WITH_EMAIL (threshold 0.1, no
\* authentication required) returns after its operation resolved with a user,
\* the result is a success, authPhase.isAuthenticated is true and the
\* stability is STABLE.
\* -------------------------------------------------------------------------
C7_LoginWritesAuth ==
    [][\A c \in CallsResumed :
          (/\ calls[c].intentGlyph = "AUTH_LOGIN_WITH_EMAIL"
           /\ calls[c].settled[1].kind = "resolved"
           /\ calls[c].settled[1].value # NULL)
          => /\ calls'[c].result[1].success
             /\ state'.authPhase.isAuthenticated
             /\ state'.phaseStability = "STABLE"]_vars

\* C7 amended: when execute of AUTH_LOGIN_WITH_EMAIL (threshold 0.1, no
\* authentication required) returns after its operation resolved with a user,
\* the result is a success carrying that user and the stability is STABLE,
\* and the gateway has not written the result into the store: the auth phase
\* is what it was before the return, so isAuthenticated is true only if
\* something else (the auth state observer) had set it.
C7_LoginLeavesAuth ==
    [][\A c \in CallsResumed :
          (/\ calls[c].intentGlyph = "AUTH_LOGIN_WITH_EMAIL"
           /\ calls[c].settled[1].kind = "resolved"
           /\ calls[c].settled[1].value # NULL)
          => /\ DeclarationOf("AUTH_LOGIN_WITH_EMAIL").entropyThreshold = 10
             /\ ~DeclarationOf("AUTH_LOGIN_WITH_EMAIL").requiresAuthentication
             /\ calls'[c].result[1].success
             /\ calls'[c].result[1].data = calls[c].settled[1].value
             /\ state'.phaseStability = "STABLE"
             /\ state'.authPhase = state.authPhase]_vars

\* The login call returned a success carrying a user and the store is STABLE
\* and still unauthenticated
C7_Witness ==
    \E c \in DOMAIN calls :
        /\ calls[c].intentGlyph = "AUTH_LOGIN_WITH_EMAIL"
        /\ calls[c].pc = "returned"
        /\ calls[c].result[1].success
        /\ calls[c].result[1].data # NULL
        /\ state.phaseStability = "STABLE"
        /\ ~state.authPhase.isAuthenticated
        /\ state.authPhase.currentUser = NULL

\* -------------------------------------------------------------------------
\* C8: when the operation of a call that passed the gates raises a failure
\* (thrown synchronously or a rejected promise), the step in which execute
\* returns gives the failure result with code EXECUTION_FAILED and leaves
\* errorPhase.hasError true with errorCode EXECUTION_FAILED, the stability
\* DRIFT_DETECTED and a failed entry with errorCode EXECUTION_FAILED appended
\* to the execution log.
\* -------------------------------------------------------------------------
C8_FailureRecorded ==
    [][\A c \in DOMAIN calls' : \A f \in OpFailures :
          FailsWith(c, f)
          => /\ calls'[c].pc = "returned"
             /\ calls'[c].invocations = 1
             /\ CodeOf(calls'[c]) = "EXECUTION_FAILED"
             /\ state'.errorPhase.hasError
             /\ state'.errorPhase.errorCode = Some("EXECUTION_FAILED")
             /\ state'.phaseStability = "DRIFT_DETECTED"
             /\ EntryAppended # NULL
             /\ EntryAppended[1].intentGlyph = calls'[c].intentGlyph
             /\ ~EntryAppended[1].success
             /\ EntryAppended[1].errorCode = Some("EXECUTION_FAILED")]_vars

\* One call failed by a synchronous throw and another by a rejected promise
C8_Witness ==
    \E c1, c2 \in DOMAIN calls :
        /\ calls[c1].pc = "returned"
        /\ calls[c1].settled # NULL
        /\ calls[c1].settled[1].kind = "threw"
        /\ calls[c2].pc = "returned"
        /\ calls[c2].settled # NULL
        /\ calls[c2].settled[1].kind = "rejected"
        /\ state.errorPhase.errorCode = Some("EXECUTION_FAILED")

\* -------------------------------------------------------------------------
\* C9: no call of execute ends with an exception or a rejected promise,
\* whatever the name, the store, the operation (resolving, rejecting or
\* throwing synchronously) and the subscribers (throwing ones among them):
\* a call that has ended has returned a result with a success flag.
\* -------------------------------------------------------------------------
C9_NothingEscapes ==
    \A c \in DOMAIN calls :
        /\ calls[c].pc \in {"awaiting", "settled", "returned"}
        /\ calls[c].pc = "returned"
           => /\ calls[c].result # NULL
              /\ calls[c].result[1].success \in BOOLEAN

\* A throwing subscriber was notified by the gateway in a call whose
\* operation threw, and the call returned a result
C9_Witness ==
    /\ calls # << >>
    /\ calls[Len(calls)].pc = "returned"
    /\ CodeOf(calls[Len(calls)]) = "EXECUTION_FAILED"
    /\ \E i \in DOMAIN delivered :
          /\ delivered[i].callback = "faulty"
          /\ delivered[i].snapshot.phaseStability = "TRANSITIONING"
    /\ \E i \in DOMAIN delivered :
          /\ delivered[i].callback = "faulty"
          /\ delivered[i].snapshot.errorPhase.hasError

\* -------------------------------------------------------------------------
\* C10 as stated: whatever value the operation of an admitted call raises,
\* when execute returns errorPhase.errorMessage is the message of that value
\* and the message of the returned error contains it.
\* -------------------------------------------------------------------------
C10_AnyMessageKept ==
    [][\A c \in DOMAIN calls' : \A f \in OpFailures :
          FailsWith(c, f)
          => /\ state'.errorPhase.errorMessage = Some(f.message)
             /\ Contains(calls'[c].result[1].error.message, f.message)]_vars

\* C10 amended: when the operation of an admitted call raises an Error, at the
\* return of execute errorPhase.errorMessage is the message of that Error and
\* the message of the returned error contains it; when it raises a value that
\* is not an Error, both carry 'Unknown execution error' instead and the
\* message of the value is lost.
C10_ErrorMessageKept ==
    [][\A c \in DOMAIN calls' : \A f \in OpFailures :
          FailsWith(c, f)
          => LET kept == IF f.isError THEN f.message ELSE "Unknown execution error"
             IN  /\ state'.errorPhase.errorMessage = Some(kept)
                 /\ Contains(calls'[c].result[1].error.message, kept)
                 /\ ~f.isError => ~Contains(calls'[c].result[1].error.message, f.message)]_vars

\* A call whose operation raised an Error returned with the message kept
C10_Witness ==
    \E c \in DOMAIN calls :
        /\ calls[c].pc = "returned"
        /\ calls[c].settled # NULL
        /\ calls[c].settled[1].kind \in {"threw", "rejected"}
        /\ calls[c].settled[1].failure.isError
        /\ state.errorPhase.errorMessage = Some(calls[c].settled[1].failure.message)
        /\ Contains(calls[c].result[1].error.message, "bad credentials")

\* The calls that return in this step
CallsReturning ==
    {c \in DOMAIN calls' :
        /\ calls'[c].pc = "returned"
        /\ c \in DOMAIN calls => calls[c].pc # "returned"}

\* -------------------------------------------------------------------------
\* C11: the execution log never holds more than 100 entries; a step in which
\* a call of execute returns records one entry for it at the end of the log,
\* evicting the oldest entry (and only it) when the log already held 100, and
\* every other step leaves the log as it is: the log is the most recent
\* min(n, 100) recorded entries in the order they were recorded.
\* -------------------------------------------------------------------------
C11_LogIsFifo ==
    [][/\ Len(executionLog') <= 100
       /\ IF CallsReturning = {}
          THEN executionLog' = executionLog
          ELSE /\ executionLog' # << >>
               /\ executionLog' =
                     Append(IF Len(executionLog) < 100
                            THEN executionLog ELSE Tail(executionLog),
                            executionLog'[Len(executionLog')])
               /\ executionLog'[Len(executionLog')].timestamp = now
               /\ \E c \in CallsReturning :
                     executionLog'[Len(executionLog')].intentGlyph = calls'[c].intentGlyph
       /\ \A i \in DOMAIN executionLog' :
             i > 1 => executionLog'[i - 1].timestamp <= executionLog'[i].timestamp]_vars

\* The log is full, its oldest entries have been evicted and its newest
\* entry is a success
C11_Witness ==
    /\ Len(executionLog) = 100
    /\ executionLog[1].timestamp > 1
    /\ executionLog[100].success
    /\ ~executionLog[99].success

\* This step is a call of canExecute
CanExecuteCalled ==
    /\ verdict' # NULL
    /\ \/ verdict' # verdict
       \/ /\ steps' # steps
          /\ UNCHANGED <<now, calls, stateRef, subscribers>>

\* -------------------------------------------------------------------------
\* C12: a step in which a call of execute returns appends exactly one entry
\* to the execution log, for the intent of the call: a success entry without
\* error code for a success, a failed entry with the code of the returned
\* error otherwise, which is the code of the gate for a call whose operation
\* was not invoked and EXECUTION_FAILED for one whose operation was.  Every
\* other step, a call of canExecute among them, leaves the log as it is.
\* -------------------------------------------------------------------------
C12_OneEntryPerCall ==
    [][IF CallsReturning = {}
       THEN executionLog' = executionLog
       ELSE \E c \in CallsReturning :
               /\ CallsReturning = {c}
               /\ EntryAppended # NULL
               /\ EntryAppended[1].intentGlyph = calls'[c].intentGlyph
               /\ IF calls'[c].result[1].success
                  THEN /\ EntryAppended[1].success
                       /\ EntryAppended[1].errorCode = NULL
                  ELSE /\ ~EntryAppended[1].success
                       /\ EntryAppended[1].errorCode = Some(CodeOf(calls'[c]))
                       /\ IF calls'[c].invocations = 0
                          THEN CodeOf(calls'[c]) \in GateCodes
                          ELSE CodeOf(calls'[c]) = "EXECUTION_FAILED"]_vars

\* canExecute has been called and the one call of execute made has logged
\* its success
C12_Witness ==
    /\ verdict # NULL
    /\ Len(calls) = 1
    /\ calls[1].pc = "returned"
    /\ Len(executionLog) = 1
    /\ executionLog[1].success
    /\ executionLog[1].errorCode = NULL

\* -------------------------------------------------------------------------
\* C13: canExecute(name) reports canExecute = true exactly when the three
\* gates of execute pass in the store it is called in, that is exactly when
\* execute(name, op) called in that store invokes op, whatever op is; and the
\* call of canExecute leaves the snapshot, the drift history and the
\* execution log as they are.
\* -------------------------------------------------------------------------
C13_CanExecuteIsGates ==
    [][CanExecuteCalled
       => LET g == verdict'[1].intentGlyph
              allowed == verdict'[1].result.canExecute
          IN  /\ allowed <=>
                    /\ g \in GlossaryGlyphs
                    /\ DeclarationOf(g).requiresAuthentication
                          => state.authPhase.isAuthenticated
                    /\ ~MeanExceedsTwice(driftHistory, DeclarationOf(g).entropyThreshold)
              /\ \A executor \in Executors(g) :
                    allowed <=>
                        executeBegin(Store, executionLog, IdleCall, g,
                                     executor, now).call.invocations = 1
              /\ state' = state
              /\ stateRef' = stateRef
              /\ driftHistory' = driftHistory
              /\ executionLog' = executionLog]_vars

\* canExecute refused an intent of an authenticated user for instability
C13_Witness ==
    /\ verdict # NULL
    /\ verdict[1].intentGlyph = "AUTH_SIGNOUT"
    /\ ~verdict[1].result.canExecute
    /\ verdict[1].result.reason = Some("System entropy too high")
    /\ state.authPhase.isAuthenticated

\* The five ways a call of execute ends
Outcome(call) ==
    IF call.result[1].success THEN "SUCCEEDED"
    ELSE IF CodeOf(call) = "EXECUTION_FAILED" THEN "FAILED"
    ELSE CodeOf(call)

\* -------------------------------------------------------------------------
\* C14: a call of execute is made, then either has returned at once or awaits
\* its operation, which settles, after which the call returns; a call that
\* has returned stays returned with one of the five outcomes
\* INTENT_NOT_PERMITTED, AUTH_REQUIRED, ENTROPY_THRESHOLD_EXCEEDED, SUCCEEDED
\* and FAILED; its operation has been invoked once if the call passed the
\* gates and never otherwise, and is not invoked again; and a call whose
\* operation has settled eventually returns.
\* -------------------------------------------------------------------------
C14_CallStateMachine ==
    /\ [][/\ \A c \in CallsMade :
                /\ calls'[c].pc \in {"awaiting", "returned"}
                /\ calls'[c].pc = "awaiting" => calls'[c].invocations = 1
          /\ \A c \in DOMAIN calls :
                /\ c \in DOMAIN calls'
                /\ calls'[c].invocations = calls[c].invocations
                /\ \/ calls'[c].pc = calls[c].pc
                   \/ calls[c].pc = "awaiting" /\ calls'[c].pc = "settled"
                   \/ calls[c].pc = "settled" /\ calls'[c].pc = "returned"
                /\ calls[c].pc = "returned" => calls'[c] = calls[c]
          /\ \A c \in DOMAIN calls' :
                calls'[c].pc = "returned"
                => /\ calls'[c].result # NULL
                   /\ Outcome(calls'[c]) \in GateCodes \cup {"SUCCEEDED", "FAILED"}
                   /\ calls'[c].invocations =
                         IF Outcome(calls'[c]) \in GateCodes THEN 0 ELSE 1]_vars
    /\ \A c \in 1..MaxSteps :
          (c \in DOMAIN calls /\ calls[c].pc = "settled")
              ~> (c \in DOMAIN calls /\ calls[c].pc = "returned")

\* Calls have ended in a rejection at a gate, in a success and in a failure
C14_Witness ==
    \E c1, c2, c3 \in DOMAIN calls :
        /\ calls[c1].pc = "returned" /\ Outcome(calls[c1]) \in GateCodes
        /\ calls[c2].pc = "returned" /\ Outcome(calls[c2]) = "SUCCEEDED"
        /\ calls[c3].pc = "returned" /\ Outcome(calls[c3]) = "FAILED"

\* after holds the values update names and the values of before elsewhere,
\* but for the fields in derived
MergedBut(before, after, update, derived) ==
    \A f \in (DOMAIN before) \ derived :
        after[f] = IF f \in DOMAIN update THEN update[f] ELSE before[f]

\* The parts of the snapshot in kept are what they were
Retained(kept) ==
    /\ "phaseStability" \in kept => state'.phaseStability = state.phaseStability
    /\ "authPhase" \in kept => state'.authPhase = state.authPhase
    /\ "uiPhase" \in kept => state'.uiPhase = state.uiPhase
    /\ "errorPhase" \in kept => state'.errorPhase = state.errorPhase

\* What setAuthPhase, setFormPhase and setError leave in the snapshot
AuthFormErrorMerged ==
    /\ \A update \in AuthUpdates :
          StoreCall(setAuthPhase(Store, update, now))
          => /\ MergedBut(state.authPhase, state'.authPhase, update, {})
             /\ Retained({"phaseStability", "uiPhase", "errorPhase"})
    /\ \A update \in FormUpdates :
          StoreCall(setFormPhase(Store, update, now))
          => /\ MergedBut(state.uiPhase.formState, state'.uiPhase.formState, update, {})
             /\ MergedBut(state.uiPhase, state'.uiPhase, << >>, {"formState"})
             /\ Retained({"phaseStability", "authPhase", "errorPhase"})
    /\ \A e \in ErrorInputs :
          StoreCall(setError(Store, e.code, e.message, e.source, now))
          => /\ state'.errorPhase = [hasError |-> TRUE, errorCode |-> Some(e.code),
                                     errorMessage |-> Some(e.message),
                                     errorTimestamp |-> Some(now),
                                     errorSource |-> Some(e.source)]
             /\ state'.phaseStability = "DRIFT_DETECTED"
             /\ Retained({"authPhase", "uiPhase"})

\* -------------------------------------------------------------------------
\* C15 as stated: after each call of setAuthPhase, setUIPhase, setFormPhase
\* and setError the snapshot holds, for each field the call names, the value
\* written and, for every other field, the value it held (the version
\* timestamp aside, and the stability, which setError sets).
\* -------------------------------------------------------------------------
C15_MergeKeepsUnnamed ==
    [][/\ AuthFormErrorMerged
       /\ \A update \in UIUpdates :
             StoreCall(setUIPhase(Store, update, now))
             => /\ MergedBut(state.uiPhase, state'.uiPhase, update, {})
                /\ Retained({"phaseStability", "authPhase", "errorPhase"})]_vars

\* C15 amended: after each call of setAuthPhase, setUIPhase, setFormPhase and
\* setError the snapshot holds, for each field the call names, the value
\* written and, for every other field, the value it held, except for the
\* fields the store derives: recursionTimestamp is the time of the call,
\* setError sets the stability to DRIFT_DETECTED, and setUIPhase called with
\* a currentView that differs from the current one sets previousView to the
\* view that was current, whether the update names previousView or not.
C15_MergeButDerived ==
    [][/\ AuthFormErrorMerged
       /\ state' # state => state'.recursionTimestamp = now
       /\ \A update \in UIUpdates :
             StoreCall(setUIPhase(Store, update, now))
             => /\ MergedBut(state.uiPhase, state'.uiPhase, update, {"previousView"})
                /\ state'.uiPhase.previousView =
                      IF /\ "currentView" \in DOMAIN update
                         /\ update.currentView # state.uiPhase.currentView
                      THEN Some(state.uiPhase.currentView)
                      ELSE IF "previousView" \in DOMAIN update
                      THEN update.previousView
                      ELSE state.uiPhase.previousView
                /\ Retained({"phaseStability", "authPhase", "errorPhase"})]_vars

\* setAuthPhase, setFormPhase and setUIPhase have written, setUIPhase twice
\* and the second time with a previousView that the store replaced
C15_Witness ==
    /\ state.authPhase.isAuthenticated
    /\ state.uiPhase.currentView = "VIEW_LOGIN"
    /\ state.uiPhase.previousView = Some("VIEW_SIGNUP")
    /\ state.uiPhase.formState.email = "a@b.c"
    /\ state.uiPhase.formState.password = ""
    /\ state.uiPhase.isLoading
    /\ state.phaseStability = "INITIALIZING"
    /\ stateRef = 4
    /\ executionLog = << >>

\* What the calls of the notifying operations make of the store S
NotifyingCalls(S) ==
    {setAuthPhase(S, update, now) : update \in AuthUpdates}
    \cup {setUIPhase(S, update, now) : update \in UIUpdates}
    \cup {setError(S, e.code, e.message, e.source, now) : e \in ErrorInputs}
    \cup {clearError(S, now)}
    \cup {setPhaseStability(S, stability, now) : stability \in StabilityInputs}
    \cup {reset(S, now)}

\* This step is a direct call of a notifying operation of the store
NotifyingCall == \E M \in NotifyingCalls(Store) : StoreCall(M)

\* The invocations of callback made in this step
InvocationsOf(callback) ==
    {i \in DOMAIN delivered' : delivered'[i].callback = callback}

\* -------------------------------------------------------------------------
\* C16: a call of setFormPhase invokes no subscriber callback; a call of
\* setAuthPhase, setUIPhase, setError, clearError, setPhaseStability or reset
\* invokes every registered callback exactly once, with the snapshot the call
\* produced, and no other callback.
\* -------------------------------------------------------------------------
C16_FormSilentOthersNotify ==
    [][/\ \A update \in FormUpdates :
             StoreCall(setFormPhase(Store, update, now))
             => /\ delivered' = << >>
                /\ stateRef' = stateRef + 1
       /\ NotifyingCall
          => /\ stateRef' = stateRef + 1
             /\ \A callback \in Callbacks :
                   Cardinality(InvocationsOf(callback)) =
                       IF \E i \in DOMAIN subscribers : subscribers[i] = callback
                       THEN 1 ELSE 0
             /\ \A i \in DOMAIN delivered' :
                   /\ delivered'[i].snapshot = state'
                   /\ delivered'[i].ref = stateRef']_vars

\* With a subscriber registered, the form was written and after it a
\* notifying operation was called: the one notification carries its snapshot
C16_Witness ==
    /\ subscribers = << "render" >>
    /\ state.uiPhase.formState.email = "a@b.c"
    /\ stateRef = 2
    /\ Len(delivered) = 1
    /\ delivered[1].ref = 2
    /\ delivered[1].snapshot.uiPhase.formState.email = "a@b.c"

\* -------------------------------------------------------------------------
\* C17: subscribe registers a new callback after the ones registered before
\* it, and a call of a notifying operation has, when it returns, invoked the
\* registered callbacks in the order of registration: callback A registered
\* before callback B is invoked before B, and none is left to be invoked
\* later.
\* -------------------------------------------------------------------------
C17_RegistrationOrder ==
    [][/\ \A callback \in Callbacks :
             StoreCall(subscribe(Store, callback))
             => /\ subscribers' =
                      IF \E i \in DOMAIN subscribers : subscribers[i] = callback
                      THEN subscribers ELSE Append(subscribers, callback)
                /\ delivered' = << >>
       /\ NotifyingCall
          => /\ Len(delivered') = Len(subscribers)
             /\ \A i \in DOMAIN subscribers : delivered'[i].callback = subscribers[i]
       /\ (~NotifyingCall /\ calls' = calls /\ now' = now) => delivered' = << >>]_vars

\* "render" was registered before "faulty" and a notifying call invoked them
\* in that order
C17_Witness ==
    /\ subscribers = << "render", "faulty" >>
    /\ Len(delivered) = 2
    /\ delivered[1].callback = "render"
    /\ delivered[2].callback = "faulty"

\* -------------------------------------------------------------------------
\* C18: when a callback throws during the notification of a call of a
\* notifying operation, the call returns normally with its mutation applied
\* (the store is what the call makes of it with no subscriber registered) and
\* every callback registered after the throwing one has been invoked with
\* the snapshot of the call.
\* -------------------------------------------------------------------------
C18_ThrowIsolated ==
    [][NotifyingCall
       => /\ uncaught' = FALSE
          /\ \E M \in NotifyingCalls([Store EXCEPT !.subscribers = << >>]) :
                /\ state' = M.state
                /\ stateRef' = M.stateRef
                /\ driftHistory' = M.driftHistory
          /\ subscribers' = subscribers
          /\ \A i, j \in DOMAIN subscribers :
                (CallbackThrows(subscribers[i]) /\ i < j)
                => \E k \in DOMAIN delivered' :
                      /\ delivered'[k].callback = subscribers[j]
                      /\ delivered'[k].snapshot = state']_vars

\* "faulty" was registered before "render"; setError was called and "render"
\* was invoked after "faulty" threw
C18_Witness ==
    /\ subscribers = << "faulty", "render" >>
    /\ ~uncaught
    /\ state.errorPhase.hasError
    /\ Len(delivered) = 2
    /\ delivered[1].callback = "faulty"
    /\ delivered[2].callback = "render"
    /\ delivered[2].snapshot = state

\* The store as this step leaves it
StoreAfter ==
    [state |-> state', stateRef |-> stateRef', driftHistory |-> driftHistory',
     subscribers |-> subscribers', delivered |-> << >>, threw |-> FALSE]

\* -------------------------------------------------------------------------
\* C19 as stated: a call of reset that follows a call of reset, at the same
\* time or later, leaves the snapshot contents and the drift history the
\* first call left.
\* -------------------------------------------------------------------------
C19_ResetTwiceSame ==
    [][StoreCall(reset(Store, now))
       => \A t \in {now, now + 1} :
             /\ reset(StoreAfter, t).state = state'
             /\ reset(StoreAfter, t).driftHistory = driftHistory']_vars

\* C19 amended: a call of reset that follows a call of reset leaves the
\* snapshot contents the first call left except for recursionTimestamp, which
\* is the time of the second call, and leaves the drift history (empty) and
\* the subscribers as they were; the second call is not a no-op: it installs
\* a new snapshot object and notifies every subscriber again.
C19_ResetTwiceSameButTimestamp ==
    [][StoreCall(reset(Store, now))
       => \A t \in {now, now + 1} :
             /\ reset(StoreAfter, t).state = [state' EXCEPT !.recursionTimestamp = t]
             /\ reset(StoreAfter, t).driftHistory = driftHistory'
             /\ reset(StoreAfter, t).subscribers = subscribers'
             /\ reset(StoreAfter, t).stateRef = stateRef' + 1
             /\ Len(reset(StoreAfter, t).delivered) = Len(subscribers')]_vars

\* reset was called, the clock advanced and reset was called again, with a
\* subscriber registered
C19_Witness ==
    /\ state = INITIAL_PHASE_MEMORY(1)
    /\ now = 1
    /\ stateRef = 2
    /\ driftHistory = << >>
    /\ subscribers # << >>
    /\ Len(delivered) = Len(subscribers)
    /\ steps = 4

\* -------------------------------------------------------------------------
\* C20: a call of reset leaves the initial snapshot (stability INITIALIZING,
\* unauthenticated with no user, auth loading not complete, view VIEW_LOADING
\* with isLoading true and no previous view, empty form fields, no error)
\* with the time of the call, an empty drift history, hence an average drift
\* of 0, and has notified every subscriber of that snapshot; the subscribers
\* stay registered and the execution log of the gateway is as it was.
\* -------------------------------------------------------------------------
C20_ResetRestoresInitial ==
    [][StoreCall(reset(Store, now))
       => /\ state' =
                [recursionTimestamp |-> now,
                 phaseStability |-> "INITIALIZING",
                 authPhase |-> [currentUser |-> NULL, isAuthenticated |-> FALSE,
                                emailVerified |-> FALSE, authLoadingComplete |-> FALSE,
                                lastAuthEventTimestamp |-> NULL],
                 uiPhase |-> [isLoading |-> TRUE, currentView |-> "VIEW_LOADING",
                              previousView |-> NULL,
                              formState |-> [email |-> "", password |-> "",
                                             confirmPassword |-> "",
                                             displayName |-> ""]],
                 errorPhase |-> [hasError |-> FALSE, errorCode |-> NULL,
                                 errorMessage |-> NULL, errorTimestamp |-> NULL,
                                 errorSource |-> NULL]]
          /\ driftHistory' = << >>
          /\ getAverageDrift(StoreAfter) = 0
          /\ Len(delivered') = Len(subscribers)
          /\ \A i \in DOMAIN subscribers :
                /\ delivered'[i].callback = subscribers[i]
                /\ delivered'[i].snapshot = state'
          /\ subscribers' = subscribers
          /\ executionLog' = executionLog]_vars

\* reset was called on a store holding an error and recorded drift, with a
\* subscriber registered and an entry in the execution log
C20_Witness ==
    /\ state.phaseStability = "INITIALIZING"
    /\ ~state.errorPhase.hasError
    /\ stateRef = 2
    /\ driftHistory = << >>
    /\ executionLog # << >>
    /\ subscribers # << >>
    /\ delivered # << >>
    /\ delivered[1].ref = 2
    /\ delivered[1].snapshot.phaseStability = "INITIALIZING"

\* This step replaced the snapshot of the store
SnapshotReplaced == stateRef' # stateRef

\* -------------------------------------------------------------------------
\* C21 as stated: every step that replaces the snapshot (a call of any
\* mutating operation, setFormPhase, setPhaseStability, clearError and reset
\* included) leaves a recursionTimestamp greater than the one of the snapshot
\* it replaced.
\* -------------------------------------------------------------------------
C21_VersionStrictlyGrows ==
    [][SnapshotReplaced
       => state'.recursionTimestamp > state.recursionTimestamp]_vars

\* C21 amended: recursionTimestamp is the reading of the clock (Date.now(),
\* in milliseconds) at the mutation, not a counter: every step that replaces
\* the snapshot leaves recursionTimestamp equal to the time of the call,
\* which is not less than the one it replaced while the clock does not step
\* back, and equal to it when both mutations fall in the same millisecond.
C21_VersionIsCallTime ==
    [][SnapshotReplaced
       => /\ state'.recursionTimestamp = now
          /\ state'.recursionTimestamp >= state.recursionTimestamp]_vars

\* setError was called at time 1 and setPhaseStability after it in the same
\* millisecond: the snapshot it left has the version of the one it replaced
C21_Witness ==
    /\ now = 1
    /\ state.errorPhase.hasError
    /\ state.errorPhase.errorTimestamp = Some(1)
    /\ state.phaseStability = "STALLED"
    /\ state.recursionTimestamp = 1
    /\ stateRef = 2

\* -------------------------------------------------------------------------
\* C22: a call of setUIPhase whose update names a currentView other than the
\* current one leaves previousView equal to the view that was current before
\* the call, whatever previousView the update supplies, and the view before
\* that one is forgotten; a call whose update does not name currentView, or
\* names the view that is already current, leaves previousView as the merge
\* of the update leaves it: the supplied value if the update names
\* previousView, the value it held otherwise.
\* -------------------------------------------------------------------------
C22_SingleLevelHistory ==
    [][\A update \in UIUpdates :
          StoreCall(setUIPhase(Store, update, now))
          => LET changes == /\ "currentView" \in DOMAIN update
                            /\ update.currentView # state.uiPhase.currentView
             IN  /\ changes
                    => /\ state'.uiPhase.previousView = Some(state.uiPhase.currentView)
                       /\ state'.uiPhase.currentView = update.currentView
                 /\ ~changes
                    => /\ state'.uiPhase.currentView = state.uiPhase.currentView
                       /\ state'.uiPhase.previousView =
                             IF "previousView" \in DOMAIN update
                             THEN update.previousView
                             ELSE state.uiPhase.previousView]_vars

\* The view changed from VIEW_LOADING to VIEW_SIGNUP and then to VIEW_LOGIN
\* with a previousView of VIEW_MAIN_APP supplied, and isLoading was written
\* by an update that names no view: previousView is VIEW_SIGNUP
C22_Witness ==
    /\ state.uiPhase.currentView = "VIEW_LOGIN"
    /\ state.uiPhase.previousView = Some("VIEW_SIGNUP")
    /\ ~state.uiPhase.isLoading
    /\ stateRef = 3
    /\ Len(driftHistory) = 3

\* Every registered callback was invoked in this step, once and in the order
\* of registration, with the snapshot the step left
AllNotifiedOfResult ==
    /\ Len(delivered') = Len(subscribers)
    /\ \A i \in DOMAIN subscribers :
          /\ delivered'[i].callback = subscribers[i]
          /\ delivered'[i].snapshot = state'

\* -------------------------------------------------------------------------
\* C23: a call setError(code, message, source), whatever the snapshot was,
\* leaves errorPhase with hasError true and the code, message and source
\* given (and the time of the call as errorTimestamp), leaves the stability
\* DRIFT_DETECTED, leaves authPhase and uiPhase as they were, and has
\* notified every subscriber of the new snapshot.
\* -------------------------------------------------------------------------
C23_SetErrorRecords ==
    [][\A e \in ErrorInputs :
          StoreCall(setError(Store, e.code, e.message, e.source, now))
          => /\ state'.errorPhase.hasError
             /\ state'.errorPhase.errorCode = Some(e.code)
             /\ state'.errorPhase.errorMessage = Some(e.message)
             /\ state'.errorPhase.errorSource = Some(e.source)
             /\ state'.errorPhase.errorTimestamp = Some(now)
             /\ state'.phaseStability = "DRIFT_DETECTED"
             /\ state'.authPhase = state.authPhase
             /\ state'.uiPhase = state.uiPhase
             /\ AllNotifiedOfResult]_vars

\* setError was called on an authenticated store showing VIEW_SIGNUP, with a
\* subscriber registered: the last drift recorded is the error flag's alone
C23_Witness ==
    /\ state.errorPhase.hasError
    /\ state.errorPhase.errorCode = Some("auth/wrong-password")
    /\ state.phaseStability = "DRIFT_DETECTED"
    /\ state.authPhase.isAuthenticated
    /\ state.uiPhase.currentView = "VIEW_SIGNUP"
    /\ driftHistory # << >>
    /\ driftHistory[Len(driftHistory)] = ErrorDriftWeight
    /\ delivered # << >>
    /\ delivered[1].ref = stateRef
    /\ delivered[1].snapshot = state

\* -------------------------------------------------------------------------
\* C24: a call clearError(), whatever the snapshot was, leaves errorPhase
\* with hasError false and errorCode, errorMessage, errorTimestamp and
\* errorSource null, leaves the stability STABLE if
\* authPhase.authLoadingComplete is true and TRANSITIONING if it is false,
\* leaves authPhase and uiPhase as they were, and has notified every
\* subscriber of the new snapshot.
\* -------------------------------------------------------------------------
C24_ClearErrorResets ==
    [][StoreCall(clearError(Store, now))
       => /\ ~state'.errorPhase.hasError
          /\ state'.errorPhase.errorCode = NULL
          /\ state'.errorPhase.errorMessage = NULL
          /\ state'.errorPhase.errorTimestamp = NULL
          /\ state'.errorPhase.errorSource = NULL
          /\ state.authPhase.authLoadingComplete => state'.phaseStability = "STABLE"
          /\ ~state.authPhase.authLoadingComplete
             => state'.phaseStability = "TRANSITIONING"
          /\ state'.authPhase = state.authPhase
          /\ state'.uiPhase = state.uiPhase
          /\ AllNotifiedOfResult]_vars

\* The auth state was resolved, setError was called and clearError after it,
\* with a subscriber registered: no error is left and the stability is STABLE
C24_Witness ==
    /\ state.authPhase.authLoadingComplete
    /\ ~state.errorPhase.hasError
    /\ state.errorPhase.errorSource = NULL
    /\ state.phaseStability = "STABLE"
    /\ calls = << >>
    /\ driftHistory # << >>
    /\ driftHistory[Len(driftHistory)] = ErrorDriftWeight
    /\ delivered # << >>
    /\ delivered[1].ref = stateRef
    /\ delivered[1].snapshot = state

\* The callback invocations this step made (a step of the clock makes none
\* and leaves the record of the handler before it)
InvokedNow == IF now' = now THEN delivered' ELSE << >>

\* The snapshot objects a reader can see in this step, in the order they
\* are seen: the one getState() returned before the step, the ones the
\* callbacks were invoked with, the one getState() returns after the step
Observed ==
    << [ref |-> stateRef, snapshot |-> state] >>
    \o [i \in DOMAIN InvokedNow |->
            [ref |-> InvokedNow[i].ref, snapshot |-> InvokedNow[i].snapshot]]
    \o << [ref |-> stateRef', snapshot |-> state'] >>

\* after is what one whole call of a mutating operation makes of the snapshot
\* before: every field the operation writes has its new value and every
\* other field the value it had
WholeMutation(before, after) ==
    LET rest == [after EXCEPT !.recursionTimestamp = before.recursionTimestamp]
    IN  \/ rest = [before EXCEPT !.authPhase = after.authPhase]
        \/ rest = [before EXCEPT !.uiPhase = after.uiPhase]
        \/ rest = [before EXCEPT !.phaseStability = after.phaseStability]
        \/ /\ rest = [before EXCEPT !.phaseStability = "DRIFT_DETECTED",
                                     !.errorPhase = after.errorPhase]
           /\ after.errorPhase.hasError
           /\ after.errorPhase.errorCode # NULL
           /\ after.errorPhase.errorMessage # NULL
           /\ after.errorPhase.errorTimestamp # NULL
           /\ after.errorPhase.errorSource # NULL
        \/ rest = [before EXCEPT
                      !.phaseStability = IF before.authPhase.authLoadingComplete
                                         THEN "STABLE" ELSE "TRANSITIONING",
                      !.errorPhase = [hasError |-> FALSE, errorCode |-> NULL,
                                      errorMessage |-> NULL, errorTimestamp |-> NULL,
                                      errorSource |-> NULL]]
        \/ after = INITIAL_PHASE_MEMORY(after.recursionTimestamp)

\* -------------------------------------------------------------------------
\* C25: the snapshot objects a reader sees (through getState() between the
\* handlers, or as the argument of a subscriber callback) are whole: an
\* object seen next after another, one mutation later, is what one whole
\* call of a mutating operation makes of it; and an object once seen is not
\* altered: its contents are the same every time it is seen again, a
\* mutation installs a new object and leaves the old one's fields alone.
\* -------------------------------------------------------------------------
C25_SnapshotsWholeAndFrozen ==
    [][/\ \A k \in 1..(Len(Observed) - 1) :
             /\ Observed[k + 1].ref >= Observed[k].ref
             /\ Observed[k + 1].ref = Observed[k].ref
                => Observed[k + 1].snapshot = Observed[k].snapshot
             /\ Observed[k + 1].ref = Observed[k].ref + 1
                => WholeMutation(Observed[k].snapshot, Observed[k + 1].snapshot)
       /\ stateRef' = stateRef => state' = state]_vars

\* A reader subscribed; execute was called and an error was recorded, and
\* setUIPhase was called after it: the callback was handed the snapshot
\* setUIPhase installed, the object the store holds
C25_Witness ==
    /\ subscribers # << >>
    /\ executionLog # << >>
    /\ state.errorPhase.hasError
    /\ state.uiPhase.currentView = "VIEW_SIGNUP"
    /\ stateRef >= 2
    /\ delivered # << >>
    /\ delivered[1].ref = stateRef
    /\ delivered[1].snapshot = state
    /\ driftHistory # << >>
    /\ driftHistory[Len(driftHistory)] = ViewDriftWeight

\* The drift a step records, by the flags it changed
DriftOfStep ==
    (IF state'.authPhase.isAuthenticated # state.authPhase.isAuthenticated
     THEN 30 ELSE 0)
  + (IF state'.uiPhase.currentView # state.uiPhase.currentView THEN 10 ELSE 0)
  + (IF state'.errorPhase.hasError # state.errorPhase.hasError THEN 20 ELSE 0)

\* What the calls of the operations that record a drift make of the store S
DriftCalls(S) ==
    {setAuthPhase(S, update, now) : update \in AuthUpdates}
    \cup {setUIPhase(S, update, now) : update \in UIUpdates}
    \cup {setError(S, e.code, e.message, e.source, now) : e \in ErrorInputs}

\* The last n elements of s (all of s if it has no more than n)
LastOf(s, n) ==
    IF Len(s) <= n THEN s ELSE SubSeq(s, Len(s) - n + 1, Len(s))

\* -------------------------------------------------------------------------
\* C26: the drift history holds the drifts recorded since the last reset,
\* the most recent 10 of them at most (recording an 11th drops the oldest),
\* and after every step getAverageDrift() is the arithmetic mean of the
\* drifts the history holds: their sum divided by their number, and 0 when
\* it holds none.
\* -------------------------------------------------------------------------
C26_MeanOfRetained ==
    [][/\ (\E M \in DriftCalls(Store) : StoreCall(M))
          => driftHistory' = LastOf(Append(driftHistory, DriftOfStep), 10)
       /\ Len(driftHistory') <= 10
       /\ driftHistory' = << >> => getAverageDrift(StoreAfter) = 0
       /\ driftHistory' # << >>
          => getAverageDrift(StoreAfter) * Len(driftHistory') =
                SumSeq(driftHistory') * DriftScale]_vars

\* More than 10 drifts were recorded, the last two by setError and by
\* setAuthPhase: the history holds 10, the oldest ones were dropped, and
\* the mean is (8 * 0.1 + 0.2 + 0.3) / 10 = 0.13
C26_Witness ==
    /\ Len(driftHistory) = 10
    /\ stateRef > 10
    /\ driftHistory[9] = 20
    /\ driftHistory[10] = 30
    /\ \A i \in 1..8 : driftHistory[i] = 10
    /\ getAverageDrift(Store) = 13 * DriftScale

\* The drift the call that made M of the store recorded
DeltaOf(M) == M.driftHistory[Len(M.driftHistory)]

\* The updates of setUIPhase that change the view of the snapshot
ViewChanging ==
    {update \in UIUpdates : /\ "currentView" \in DOMAIN update
                            /\ update.currentView # state.uiPhase.currentView}

\* The updates of setAuthPhase that flip isAuthenticated of the snapshot
AuthFlipping ==
    {update \in AuthUpdates :
        /\ "isAuthenticated" \in DOMAIN update
        /\ update.isAuthenticated # state.authPhase.isAuthenticated}

\* The calls of setError that flip hasError of the snapshot
ErrorFlipping == {e \in ErrorInputs : ~state.errorPhase.hasError}

\* -------------------------------------------------------------------------
\* C27 as stated: a call that only flips isAuthenticated records a greater
\* drift than a call that only changes currentView would record in the same
\* state, and a call that only changes currentView records a greater drift
\* than a call that only flips hasError would.
\* -------------------------------------------------------------------------
C27_AuthOverViewOverError ==
    [][/\ \A ua \in AuthFlipping :
             StoreCall(setAuthPhase(Store, ua, now))
             => \A uv \in ViewChanging :
                   DeltaOf(StoreAfter) > DeltaOf(setUIPhase(Store, uv, now))
       /\ \A uv \in ViewChanging :
             StoreCall(setUIPhase(Store, uv, now))
             => \A e \in ErrorFlipping :
                   DeltaOf(StoreAfter) >
                       DeltaOf(setError(Store, e.code, e.message, e.source, now))]_vars

\* C27 amended: the weights are ordered auth-flag flip (0.3) > error-flag
\* flip (0.2) > view transition (0.1): a call that only flips
\* isAuthenticated records 0.3, more than the 0.2 a call that only flips
\* hasError records, which is more than the 0.1 a call that only changes
\* currentView records; a call that changes none of the three records 0.
C27_AuthOverErrorOverView ==
    [][/\ \A ua \in AuthUpdates :
             StoreCall(setAuthPhase(Store, ua, now))
             => /\ DeltaOf(StoreAfter) = IF ua \in AuthFlipping THEN 30 ELSE 0
                /\ ua \in AuthFlipping
                   => \A e \in ErrorFlipping :
                         DeltaOf(StoreAfter) >
                             DeltaOf(setError(Store, e.code, e.message, e.source, now))
       /\ \A e \in ErrorInputs :
             StoreCall(setError(Store, e.code, e.message, e.source, now))
             => /\ DeltaOf(StoreAfter) = IF e \in ErrorFlipping THEN 20 ELSE 0
                /\ e \in ErrorFlipping
                   => \A uv \in ViewChanging :
                         DeltaOf(StoreAfter) > DeltaOf(setUIPhase(Store, uv, now))
       /\ \A uv \in UIUpdates :
             StoreCall(setUIPhase(Store, uv, now))
             => DeltaOf(StoreAfter) = IF uv \in ViewChanging THEN 10 ELSE 0]_vars

\* setAuthPhase flipped isAuthenticated, setError raised the error flag and
\* setUIPhase changed the view, in that order: the drifts recorded are 0.3,
\* 0.2 and 0.1
C27_Witness ==
    /\ driftHistory = << 30, 20, 10 >>
    /\ state.authPhase.isAuthenticated
    /\ state.errorPhase.hasError
    /\ state.uiPhase.currentView # "VIEW_LOADING"

\* What the calls of the operations that replace the snapshot without
\* recording a drift make of the store S (reset aside)
DriftlessCalls(S) ==
    {setFormPhase(S, update, now) : update \in FormUpdates}
    \cup {clearError(S, now)}
    \cup {setPhaseStability(S, stability, now) : stability \in StabilityInputs}

\* -------------------------------------------------------------------------
\* C28 as stated: every call of a mutating operation (reset aside, which
\* empties the history) records the drift of the change it made; a call of
\* clearError that flips hasError from true to false records 0.2, as the
\* call of setError that raised it did.
\* -------------------------------------------------------------------------
C28_EveryMutationRecords ==
    [][(\E M \in DriftCalls(Store) \cup DriftlessCalls(Store) : StoreCall(M))
       => driftHistory' = LastOf(Append(driftHistory, DriftOfStep), 10)]_vars

\* C28 amended: only setAuthPhase, setUIPhase and setError record a drift
\* (one entry per call, 0 when none of the three flags changed);
\* setFormPhase, clearError and setPhaseStability leave the drift history as
\* it is, so a call of clearError that flips hasError from true to false
\* contributes nothing and the average is what it was; reset empties the
\* history.
C28_OnlyThreeRecord ==
    [][/\ (\E M \in DriftCalls(Store) : StoreCall(M))
          => /\ driftHistory' = LastOf(Append(driftHistory, DriftOfStep), 10)
             /\ driftHistory' # << >>
       /\ (\E M \in DriftlessCalls(Store) : StoreCall(M))
          => /\ driftHistory' = driftHistory
             /\ getAverageDrift(StoreAfter) = getAverageDrift(Store)
       /\ StoreCall(reset(Store, now)) => driftHistory' = << >>]_vars

\* setError raised the error flag and recorded 0.2; clearError lowered it
\* and recorded nothing
C28_Witness ==
    /\ ~state.errorPhase.hasError
    /\ state.phaseStability = "TRANSITIONING"
    /\ driftHistory = << 20 >>
    /\ stateRef = 2

\* The calls of execute whose operation is pending before and after this step
StillPending ==
    {c \in DOMAIN calls : calls[c].pc = "awaiting" /\ calls'[c].pc = "awaiting"}

\* The calls of execute this step made whose operation it started and left
\* pending
StartedPending == {c \in CallsMade : calls'[c].pc = "awaiting"}

\* This step is one of the handlers that write the stability: setError,
\* clearError, setPhaseStability and reset called directly, the auth
\* observer, a call of execute, the continuation of a call of execute, and
\* an operation that writes to the store as it resolves
StabilityWritten ==
    \/ SetError
    \/ ClearError
    \/ SetPhaseStability
    \/ Reset
    \/ AuthStateChange
    \/ Execute
    \/ ExecuteResume
    \/ OpResolves

\* -------------------------------------------------------------------------
\* C29 as stated: when a call of execute has started its operation the
\* stability is TRANSITIONING, and after every step that leaves an operation
\* pending, whatever call of the store or the gateway the step is, the
\* stability is TRANSITIONING.
\* -------------------------------------------------------------------------
C29_PendingHoldsTransitioning ==
    [][/\ StartedPending # {} => state'.phaseStability = "TRANSITIONING"
       /\ StillPending # {} => state'.phaseStability = "TRANSITIONING"]_vars

\* C29 amended: when a call of execute has started its operation the
\* stability is TRANSITIONING, and nothing in the gateway or the store ends
\* that by the passing of time: while the operation is pending, a step that
\* is not a handler writing the stability (the clock, setAuthPhase,
\* setUIPhase, setFormPhase, subscribe, unsubscribe, a rejection of the
\* pending operation of another call) leaves the stability as it is.  It is
\* not held against other calls: setError, clearError, setPhaseStability,
\* reset, the auth observer and the completion of another call of execute
\* overwrite it while the operation is still pending.
C29_PendingHoldsUnlessWritten ==
    [][/\ StartedPending # {} => state'.phaseStability = "TRANSITIONING"
       /\ (StillPending # {} /\ ~StabilityWritten)
          => state'.phaseStability = state.phaseStability]_vars

\* An operation admitted at time 0 is still pending two milliseconds later,
\* after a call of setFormPhase: the stability is TRANSITIONING
C29_Witness ==
    /\ Len(calls) = 1
    /\ calls[1].pc = "awaiting"
    /\ calls[1].startTime = 0
    /\ now = 2
    /\ state.recursionTimestamp = 2
    /\ state.uiPhase.formState.email = "a@b.c"
    /\ state.phaseStability = "TRANSITIONING"

\* -------------------------------------------------------------------------
\* C30: a call of execute is judged by the three gates alone, against the
\* store as it is when the call is made: its operation is invoked, within
\* the call, if and only if the name is declared, the user is authenticated
\* if the declaration requires it, and the mean of the drift history does not
\* exceed twice the declared threshold, whatever calls are in flight and
\* whatever the stability is; a refusal carries the code of a gate; and the
\* call leaves the calls made before it as they are, a pending operation
\* still pending.
\* -------------------------------------------------------------------------
C30_NoLockNoQueue ==
    [][\A c \in CallsMade :
          LET g == calls'[c].intentGlyph
              passes ==
                  /\ g \in GlossaryGlyphs
                  /\ DeclarationOf(g).requiresAuthentication
                        => state.authPhase.isAuthenticated
                  /\ ~MeanExceedsTwice(driftHistory, DeclarationOf(g).entropyThreshold)
          IN  /\ calls'[c].invocations = IF passes THEN 1 ELSE 0
              /\ calls'[c].pc \in {"awaiting", "returned", "rejected"}
              /\ passes => CodeOf(calls'[c]) \in {"NONE", "EXECUTION_FAILED"}
              /\ ~passes => /\ calls'[c].pc = "returned"
                            /\ CodeOf(calls'[c]) \in GateCodes
              /\ \A d \in DOMAIN calls : calls'[d] = calls[d]]_vars

\* Two operations are pending at once: the second call of execute was made
\* while the first was suspended and the stability was TRANSITIONING, and a
\* third call, of an authenticated intent, was refused for want of
\* authentication while both were pending
C30_Witness ==
    /\ Len(calls) = 3
    /\ calls[1].pc = "awaiting" /\ calls[1].invocations = 1
    /\ calls[2].pc = "awaiting" /\ calls[2].invocations = 1
    /\ CodeOf(calls[3]) = "AUTH_REQUIRED"
    /\ state.phaseStability = "TRANSITIONING"

\* The entries of the execution log left by calls that ran their operation
\* to completion: the successes and the failures of the operation
Completions ==
    {k \in DOMAIN executionLog :
        \/ executionLog[k].success
        \/ executionLog[k].errorCode = Some("EXECUTION_FAILED")}

\* No call of execute is suspended
NoneInFlight == \A c \in DOMAIN calls : calls[c].pc \in {"returned", "rejected"}

\* -------------------------------------------------------------------------
\* C31: when the calls of execute that were admitted have all completed,
\* with no other writer of the stability, the stability is the one the call
\* that completed last wrote: STABLE if that call succeeded, DRIFT_DETECTED
\* if it failed, whichever call was started first and whatever the calls
\* that completed before it wrote.
\* -------------------------------------------------------------------------
C31_LastCompletionWins ==
    (NoneInFlight /\ Completions # {})
    => LET last == CHOOSE k \in Completions : \A j \in Completions : j <= k
       IN  state.phaseStability =
               IF executionLog[last].success THEN "STABLE" ELSE "DRIFT_DETECTED"

\* Two admitted calls overlapped: the second one made succeeded first and
\* the first one made failed after it; the stability is DRIFT_DETECTED
C31_Witness ==
    /\ Len(calls) = 2
    /\ calls[1].pc = "returned" /\ Outcome(calls[1]) = "FAILED"
    /\ calls[2].pc = "returned" /\ Outcome(calls[2]) = "SUCCEEDED"
    /\ Len(executionLog) = 2
    /\ executionLog[1].success
    /\ ~executionLog[2].success
    /\ state.phaseStability = "DRIFT_DETECTED"

\* The error source the naming convention gives each declared name
SourceByPrefix(intentGlyph) ==
    CASE intentGlyph = "AUTH_LOGIN_WITH_EMAIL" -> "ERROR_AUTH_LOGIN"
      [] intentGlyph = "AUTH_SIGNUP_WITH_EMAIL" -> "ERROR_AUTH_SIGNUP"
      [] intentGlyph = "AUTH_SIGNOUT" -> "ERROR_AUTH_SIGNOUT"
      [] intentGlyph = "AUTH_SEND_PASSWORD_RESET" -> "ERROR_AUTH_PASSWORD_RESET"
      [] intentGlyph = "AUTH_SEND_EMAIL_VERIFICATION" -> "ERROR_AUTH_EMAIL_VERIFICATION"
      [] intentGlyph = "STORAGE_UPLOAD_PUBLIC_PHOTO" -> "ERROR_STORAGE_UPLOAD"
      [] intentGlyph = "STORAGE_UPLOAD_PRIVATE_FILE" -> "ERROR_STORAGE_UPLOAD"
      [] intentGlyph = "STORAGE_DELETE_FILE" -> "ERROR_STORAGE_DELETE"
      [] OTHER -> "ERROR_UNKNOWN"

\* The calls that return in this step with the failure of their operation
CallsFailing ==
    {c \in DOMAIN calls' :
        /\ calls'[c].pc = "returned"
        /\ c \in DOMAIN calls => calls[c].pc # "returned"
        /\ CodeOf(calls'[c]) = "EXECUTION_FAILED"}

\* -------------------------------------------------------------------------
\* C32: when the operation of a call of execute with a declared name fails,
\* the error source the store holds after the call is the one the prefix of
\* the name gives: ERROR_AUTH_LOGIN for AUTH_LOGIN..., ERROR_AUTH_SIGNUP for
\* AUTH_SIGNUP..., ERROR_AUTH_SIGNOUT for AUTH_SIGNOUT...,
\* ERROR_AUTH_PASSWORD_RESET for AUTH_SEND_PASSWORD...,
\* ERROR_AUTH_EMAIL_VERIFICATION for AUTH_SEND_EMAIL..., ERROR_STORAGE_UPLOAD
\* for STORAGE_UPLOAD..., ERROR_STORAGE_DELETE for STORAGE_DELETE..., and
\* ERROR_UNKNOWN for every other declared name (AUTH_RELOAD_USER, IDENTITY_*,
\* MEMORY_*, NAVIGATE_*); it is one tag of the fixed set.
\* -------------------------------------------------------------------------
C32_SourceByPrefix ==
    [][\A c \in CallsFailing :
          /\ state'.errorPhase.hasError
          /\ state'.errorPhase.errorSource = Some(SourceByPrefix(calls'[c].intentGlyph))
          /\ state'.errorPhase.errorSource[1] \in ErrorSourceGlyph
          /\ state'.errorPhase.errorCode = Some("EXECUTION_FAILED")]_vars

\* The operation of AUTH_RELOAD_USER failed and after it the operation of
\* STORAGE_DELETE_FILE: the store holds ERROR_STORAGE_DELETE
C32_Witness ==
    /\ Len(calls) = 2
    /\ calls[1].intentGlyph = "AUTH_RELOAD_USER"
    /\ CodeOf(calls[1]) = "EXECUTION_FAILED"
    /\ calls[2].intentGlyph = "STORAGE_DELETE_FILE"
    /\ CodeOf(calls[2]) = "EXECUTION_FAILED"
    /\ state.errorPhase.errorSource = Some("ERROR_STORAGE_DELETE")

\* -------------------------------------------------------------------------
\* C33: in every reachable state each drift the history holds is 0, 0.1, 0.2
\* or 0.3 (the weight of one flag at most, since one store operation changes
\* one of the three flags at most), the history holds no more than 10
\* drifts, and getAverageDrift() is at least 0 and at most 0.3.
\* -------------------------------------------------------------------------
C33_DriftBounded ==
    /\ \A i \in DOMAIN driftHistory : driftHistory[i] \in {0, 10, 20, 30}
    /\ Len(driftHistory) <= 10
    /\ getAverageDrift(Store) >= 0
    /\ getAverageDrift(Store) <= Scaled(30)

\* More than 10 drifts were recorded and the oldest were dropped: the
\* history is full and holds each of the four values
C33_Witness ==
    /\ Len(driftHistory) = 10
    /\ stateRef > 10
    /\ \A d \in {0, 10, 20, 30} : \E i \in DOMAIN driftHistory : driftHistory[i] = d
    /\ getAverageDrift(Store) > 0

\* -------------------------------------------------------------------------
\* C34: a call of the function subscribe(cb) returned leaves cb unregistered
\* and the other subscribers registered in their order, and changes nothing
\* when cb is not registered (the function is called again); a callback that
\* is not registered stays so until it is subscribed again, and no mutation
\* invokes it: a notifying mutation invokes the registered callbacks, each
\* once, in their order.
\* -------------------------------------------------------------------------
Registered(callback) == \E i \in DOMAIN subscribers : subscribers[i] = callback

CallbacksInvoked == [i \in DOMAIN delivered' |-> delivered'[i].callback]

C34_UnsubscribedNeverInvoked ==
    [][\A cb \in Listeners :
          /\ StoreCall(unsubscribe(Store, cb)) =>
                /\ subscribers' = SelectSeq(subscribers, LAMBDA c : c # cb)
                /\ ~Registered(cb) => UNCHANGED storeVars
          /\ (~Registered(cb) /\ ~StoreCall(subscribe(Store, cb))) =>
                /\ \A i \in DOMAIN subscribers' : subscribers'[i] # cb
                /\ \A i \in DOMAIN delivered' : delivered'[i].callback # cb
          /\ NotifyingCall => CallbacksInvoked = subscribers]_vars

\* The callback registered second was unsubscribed, and a later mutation
\* invoked the first and the third, in this order
C34_Witness ==
    /\ subscribers = <<"render", "logger">>
    /\ [i \in DOMAIN delivered |-> delivered[i].callback] = <<"render", "logger">>
    /\ stateRef > 0
    /\ steps >= 3

\* -------------------------------------------------------------------------
\* C35: when the store is as the observer left it after a login from the
\* initial store (setAuthPhase, clearError, setUIPhase and nothing else), a
\* call of execute('AUTH_SIGNOUT', op) passes the stability gate and invokes
\* op.
\* -------------------------------------------------------------------------
\* The store the observer makes of the initial store when user logs in at t
LoginRecorded(user, t) ==
    LET initial == [state |-> INITIAL_PHASE_MEMORY(0), stateRef |-> 0,
                    driftHistory |-> << >>, subscribers |-> << >>,
                    delivered |-> << >>, threw |-> FALSE]
    IN  setUIPhase(updateShellMemory(initial, user, "USER_LOGGED_IN", t),
                   [currentView |-> determineTargetView(user), isLoading |-> FALSE], t)

\* The observer recorded the login of user and nothing was written since
JustLoggedIn(user) ==
    /\ previousUser = user
    /\ \E t \in 0..now :
          /\ state = LoginRecorded(user, t).state
          /\ stateRef = LoginRecorded(user, t).stateRef
          /\ driftHistory = LoginRecorded(user, t).driftHistory

C35_SignOutAfterLogin ==
    [][\A c \in CallsMade :
          (calls'[c].intentGlyph = "AUTH_SIGNOUT"
              /\ \E user \in AuthEvents \ {NULL} : JustLoggedIn(user)) =>
             /\ CodeOf(calls'[c]) # "ENTROPY_THRESHOLD_EXCEEDED"
             /\ calls'[c].invocations = 1]_vars

\* -------------------------------------------------------------------------
\* C36: on the verify-email view, reached when the observer recorded the
\* login of a user whose email is not verified, the call of
\* execute('AUTH_RELOAD_USER', op) the view's timer makes is not rejected
\* with ENTROPY_THRESHOLD_EXCEEDED and invokes op.
\* -------------------------------------------------------------------------
OnVerifyEmailView ==
    /\ previousUser # NULL
    /\ ~previousEmailVerified
    /\ state.authPhase.isAuthenticated
    /\ state.uiPhase.currentView = "VIEW_VERIFY_EMAIL"

C36_ReloadAdmitted ==
    [][\A c \in CallsMade :
          (calls'[c].intentGlyph = "AUTH_RELOAD_USER" /\ OnVerifyEmailView) =>
             /\ CodeOf(calls'[c]) # "ENTROPY_THRESHOLD_EXCEEDED"
             /\ calls'[c].invocations = 1]_vars

\* -------------------------------------------------------------------------
\* C37: the drift history, and with it getAverageDrift(), changes only in a
\* step that calls setAuthPhase, setUIPhase, setError or reset; an intent
\* that execute would reject with ENTROPY_THRESHOLD_EXCEEDED is rejected
\* with it again after every step that calls none of the four, whatever
\* time has passed: a rejection, canExecute, setFormPhase, clearError and
\* setPhaseStability among them.
\* -------------------------------------------------------------------------
\* This step calls setAuthPhase, setUIPhase, setError or reset: directly, in
\* the observer, in the body of an operation, or in the catch of execute
RecordingStep ==
    \/ \E M \in DriftCalls(Store) : StoreCall(M)
    \/ StoreCall(reset(Store, now))
    \/ \E user \in AuthEvents :
          /\ StoreBecomes(handleAuthStateChange(Store, user, now))
          /\ previousUser' = user
          /\ UNCHANGED <<now, calls, executionLog>>
    \/ \E c \in DOMAIN calls :
          /\ calls[c].pc = "awaiting"
          /\ calls'[c].pc = "settled"
          /\ calls[c].body # "plain"
          /\ stateRef' # stateRef
    \/ CallsFailing # {}

\* execute(intentGlyph, op) called on the store S at time t is rejected with
\* ENTROPY_THRESHOLD_EXCEEDED
Unstable(S, intentGlyph, t) ==
    CodeOf(executeBegin(S, << >>, IdleCall, intentGlyph,
                        [throws |-> NULL, body |-> "plain"], t).call)
        = "ENTROPY_THRESHOLD_EXCEEDED"

\* This step is one the claim names as leaving the instability alone: time
\* passing, canExecute, a call of execute rejected at a gate, setFormPhase,
\* clearError or setPhaseStability
QuietStep ==
    \/ now' # now
    \/ CanExecuteCalled
    \/ \E c \in CallsMade : CodeOf(calls'[c]) \in GateCodes
    \/ \E M \in DriftlessCalls(Store) : StoreCall(M)

C37_NoRecoveryByTime ==
    [][/\ driftHistory' # driftHistory => RecordingStep
       /\ QuietStep => driftHistory' = driftHistory
       /\ driftHistory' = driftHistory =>
             \A intentGlyph \in IntentInputs :
                Unstable(Store, intentGlyph, now)
                    => Unstable(StoreAfter, intentGlyph, now')]_vars

\* AUTH_SIGNOUT was rejected for instability, time passed, and its retry was
\* rejected for instability again
C37_Witness ==
    /\ Len(calls) = 2
    /\ \A c \in 1..2 : /\ calls[c].intentGlyph = "AUTH_SIGNOUT"
                       /\ CodeOf(calls[c]) = "ENTROPY_THRESHOLD_EXCEEDED"
    /\ calls[2].startTime > calls[1].startTime
    /\ driftHistory # << >>

\* -------------------------------------------------------------------------
\* C38: in every state the observer's events and the operations of the auth
\* engine (run through the gateway, in any interleaving) can lead to,
\* authPhase.isAuthenticated is true if and only if authPhase.currentUser is
\* present.
\* -------------------------------------------------------------------------
C38_AuthenticatedIffUser ==
    state.authPhase.isAuthenticated <=> state.authPhase.currentUser # NULL

\* -------------------------------------------------------------------------
\* C40: a call of execute that is rejected at a gate or admitted, and the
\* return of a call whose operation succeeded (which sets the stability to
\* STABLE), leave the error phase as it was; an error the store holds
\* changes only in a step that calls setError (directly or in the catch of
\* execute), clearError or reset.
\* -------------------------------------------------------------------------
\* This step calls setError, clearError or reset: directly, in the catch of
\* execute, in the observer on a login, or in the body of signOutUser
ErrorPhaseWritten ==
    \/ CallsFailing # {}
    \/ \E e \in ErrorInputs : StoreCall(setError(Store, e.code, e.message, e.source, now))
    \/ StoreCall(clearError(Store, now))
    \/ StoreCall(reset(Store, now))
    \/ previousUser = NULL /\ previousUser' # NULL
    \/ \E c \in DOMAIN calls :
          /\ calls[c].pc = "awaiting"
          /\ calls'[c].pc = "settled"
          /\ calls[c].body = "signOutUser"

C40_SuccessKeepsError ==
    [][/\ \A c \in CallsMade :
             CodeOf(calls'[c]) # "EXECUTION_FAILED"
                 => state'.errorPhase = state.errorPhase
       /\ \A c \in CallsResumed :
             calls'[c].result[1].success
                 => /\ state'.errorPhase = state.errorPhase
                    /\ state'.phaseStability = "STABLE"
       /\ (state.errorPhase.hasError /\ state'.errorPhase # state.errorPhase)
             => ErrorPhaseWritten]_vars

\* The first call failed and left its error; the second call succeeded: the
\* stability is STABLE and the error of the first is still in the store
C40_Witness ==
    /\ Len(calls) = 2
    /\ CodeOf(calls[1]) = "EXECUTION_FAILED"
    /\ calls[2].pc = "returned"
    /\ calls[2].result[1].success
    /\ state.phaseStability = "STABLE"
    /\ state.errorPhase.hasError
    /\ state.errorPhase.errorCode = Some("EXECUTION_FAILED")
    /\ state.errorPhase.errorSource = Some(SourceByPrefix(calls[1].intentGlyph))

\* -------------------------------------------------------------------------
\* C39: in a step that calls a notifying operation, a callback that mutates
\* the store included, every subscriber is handed snapshots whose version
\* (recursionTimestamp) never decreases, and the last snapshot it is handed
\* is the snapshot the store holds when the notifications have finished.
\* -------------------------------------------------------------------------
C39_OrderedAndCurrent ==
    [][NotifyingCall =>
          \A i \in DOMAIN subscribers :
             LET received == InvocationsOf(subscribers[i])
             IN  /\ received # {}
                 /\ \A j \in received, k \in received :
                       j < k => delivered'[j].snapshot.recursionTimestamp
                                    <= delivered'[k].snapshot.recursionTimestamp
                 /\ \A j \in received :
                       (\A k \in received : k <= j)
                           => /\ delivered'[j].snapshot = state'
                              /\ delivered'[j].ref = stateRef']_vars

====
